---------------------------- MODULE Spec2Model ----------------------------
(***************************************************************************)
(* Model of the solar estimate pipeline of the SolarSavian client:         *)
(*   - getTariffByState          (data/tariffs)                            *)
(*   - getCoordinates            (services/googleMapsService, the hybrid   *)
(*                                version and the direct-only version)     *)
(*   - getSolarInsights          (services/googleMapsService, both)        *)
(*   - parseGeminiJson and generateSolarReportWithData                     *)
(*                               (services/geminiService, hybrid version)  *)
(*   - generateSolarReport and the provider-computed                       *)
(*     generateSolarReportWithData (services/geminiService), from          *)
(*     JSON.parse on                                                       *)
(*   - App: handleSearch, navigation, handleLogin, handleLeadSubmit,       *)
(*     buyLead                   (App, the version using the hybrid        *)
(*                                services)                                *)
(*   - AddressAutocomplete       (components/AddressAutocomplete)          *)
(*                                                                         *)
(* Number representation.  The program computes on IEEE doubles; the model *)
(* computes the same formulas on exact rationals, held as scaled integers: *)
(*   tariff            centavos per kWh        (0.92 R$/kWh  ->  92)       *)
(*   systemSizeKw      hundredths of a kWp     (2.84 kWp     ->  284)      *)
(*   lat, lng          1e-4 degrees            (-23.5505     -> -235505)   *)
(*   monthlySavings    1/200000 R$                                         *)
(*   co2OffsetTons     1e-8 t                                              *)
(*   paybackPeriodYears  tenths of a year, NotANumber for 0/0              *)
(* A text is a sequence of one-character strings; a provider text is a     *)
(* sequence of lexical tokens.                                             *)
(***************************************************************************)
EXTENDS Integers, Sequences, FiniteSets, TLC

VARIABLES
    \* ---- getCoordinates (one call) ----
    geoPc,          \* "idle" | "proxy" | "direct" | "done"
    geoVersion,     \* "hybrid" (lines 21-66) | "legacy" (lines 134-173)
    geoAddress,     \* the address argument
    geoResult,      \* the settled promise: [state, value]
    geoLog,         \* the tiers attempted, in order
    \* ---- getSolarInsights (one call) ----
    solPc,          \* "idle" | "proxy" | "direct" | "done"
    solVersion,     \* "hybrid" (lines 68-89) | "legacy" (lines 175-192)
    solArgs,        \* [lat, lng]
    solResult,      \* the settled promise: [state, value]
    solLog,         \* the tiers attempted, in order
    \* ---- generateSolarReportWithData (one call) ----
    repPc,          \* "idle" | "proxy" | "sdk" | "merge" | "done"
    repArgs,        \* [address, lat, lng, solarData, monthlyBill]
    repEst,         \* the deterministic calculations of section 1
    geminiData,     \* the local variable geminiData
    repResult,      \* the settled promise: [state, value]
    repLog,         \* the narrative tiers attempted, with what they returned
    \* ---- getTariffByState (one call) ----
    tarAddress,     \* the address argument
    tarResult,      \* [called, value]
    \* ---- generateSolarReport and the first generateSolarReportWithData
    \*      (one call) ----
    llmParsed,      \* what JSON.parse made of the provider's text
    llmResult,      \* [called, version, promise]
    \* ---- App: component state ----
    mode,           \* "HOMEOWNER" | "LOGIN" | "INSTALLER"
    installerProfile, \* the profile handleLogin stored, NoProfile for null
    loading,        \* the loading flag
    report,         \* the stored report, NoReport for null
    leads,          \* the leads list, newest first
    showForm,       \* the lead capture form is open
    \* ---- App: handleSearch runs ----
    appPc,          \* the run followed step by step:
                    \* "idle" | "geo" | "sol" | "rep" | "done"
    appEntered,     \* the address that run was started with
    alerted,        \* that run ended in its catch (alert)
    runs,           \* addresses of the runs in flight, seen from the UI
    runsStale,      \* per run in flight: the user navigated away since it began
    reportStale,    \* the stored report was written by such a run
    \* ---- AddressAutocomplete: component state ----
    uiInput,        \* the input text
    uiSuggestions,  \* the suggestions list
    uiShow,         \* showSuggestions
    uiPending       \* values whose autocompleteAddress call is awaited

vars == <<geoPc, geoVersion, geoAddress, geoResult, geoLog,
          solPc, solVersion, solArgs, solResult, solLog,
          repPc, repArgs, repEst, geminiData, repResult, repLog,
          tarAddress, tarResult, llmParsed, llmResult,
          mode, installerProfile, loading, report, leads, showForm,
          appPc, appEntered, alerted, runs, runsStale, reportStale,
          uiInput, uiSuggestions, uiShow, uiPending>>

geoVars == <<geoPc, geoVersion, geoAddress, geoResult, geoLog>>
solVars == <<solPc, solVersion, solArgs, solResult, solLog>>
repVars == <<repPc, repArgs, repEst, geminiData, repResult, repLog>>
tarVars == <<tarAddress, tarResult, llmParsed, llmResult>>
appVars == <<mode, installerProfile, loading, report, leads, showForm>>
runVars == <<appPc, appEntered, alerted, runs, runsStale, reportStale>>
uiVars == <<uiInput, uiSuggestions, uiShow, uiPending>>
clientVars == <<tarVars, appVars, runVars, uiVars>>

---------------------------------------------------------------------------
(* Generic helpers *)

RECURSIVE SumSeq(_)
SumSeq(s) == IF s = <<>> THEN 0 ELSE Head(s) + SumSeq(Tail(s))

\* Math.round(n/d) for d > 0: floor(n/d + 1/2)
MathRound(n, d) == (2 * n + d) \div (2 * d)

\* The outcome of running a block of code: it returns a value, it throws,
\* or it runs off its end (falls through to the next statement).
Return(v) == [kind |-> "return", value |-> v]
Throw == [kind |-> "throw", value |-> <<>>]
FallThrough == [kind |-> "fallthrough", value |-> <<>>]

\* try { block } catch (e) { log }: a throw becomes a fall through.
TryCatchLogOnly(o) == IF o.kind = "throw" THEN FallThrough ELSE o

\* A settled promise.
Resolved(v) == [state |-> "resolved", value |-> v]
Rejected == [state |-> "rejected", value |-> <<>>]
Pending == [state |-> "pending", value |-> <<>>]

\* The promise an async function settles with when its body ends with o.
Settle(o) == IF o.kind = "throw" THEN Rejected ELSE Resolved(o.value)

---------------------------------------------------------------------------
(* Texts: sequences of one-character strings *)

Chars == {"A", "B", "C", "J", "L", "P", "R", "S", "X",
          "a", "c", "l", "p", "s", "u", "x", " ", ",", ".", "1"}

CharCode(c) ==
    CASE c = "A" -> 65  [] c = "B" -> 66  [] c = "C" -> 67  [] c = "J" -> 74
      [] c = "L" -> 76  [] c = "P" -> 80  [] c = "R" -> 82  [] c = "S" -> 83
      [] c = "X" -> 88  [] c = "a" -> 97  [] c = "c" -> 99  [] c = "l" -> 108
      [] c = "p" -> 112 [] c = "s" -> 115 [] c = "u" -> 117 [] c = "x" -> 120
      [] c = " " -> 32  [] c = "," -> 44  [] c = "." -> 46  [] c = "1" -> 49

LowerLetters ==
    <<"a", "b", "c", "d", "e", "f", "g", "h", "i", "j", "k", "l", "m",
      "n", "o", "p", "q", "r", "s", "t", "u", "v", "w", "x", "y", "z">>
UpperLetters ==
    <<"A", "B", "C", "D", "E", "F", "G", "H", "I", "J", "K", "L", "M",
      "N", "O", "P", "Q", "R", "S", "T", "U", "V", "W", "X", "Y", "Z">>
Digits == {"0", "1", "2", "3", "4", "5", "6", "7", "8", "9"}

\* String.prototype.toUpperCase, one character
UpperChar(c) ==
    IF c = "ã" THEN "Ã"
    ELSE IF c = "í" THEN "Í"
    ELSE IF \E i \in DOMAIN LowerLetters : LowerLetters[i] = c
    THEN UpperLetters[CHOOSE i \in DOMAIN LowerLetters : LowerLetters[i] = c]
    ELSE c

toUpperCase(s) == [i \in 1..Len(s) |-> UpperChar(s[i])]

\* \w of a JavaScript regular expression: [A-Za-z0-9_]
IsWordChar(c) ==
    \/ \E i \in DOMAIN LowerLetters : LowerLetters[i] = c \/ UpperLetters[i] = c
    \/ c \in Digits
    \/ c = "_"

\* \b at the gap before position i (1-based) of s
WordBoundary(s, i) ==
    LET before == IF i > 1 /\ i - 1 <= Len(s) THEN IsWordChar(s[i - 1]) ELSE FALSE
        after == IF i >= 1 /\ i <= Len(s) THEN IsWordChar(s[i]) ELSE FALSE
    IN before # after

SampleAddresses ==
    { <<"R", "u", "a", " ", "A", ",", " ", "S", "P">>,
      <<"A", "l", ".", " ", "B", ",", " ", "R", "J">>,
      <<"R", "u", "a", " ", "X", " ", "1">>,
      <<"x", ",", " ", "s", "c">> }

---------------------------------------------------------------------------
(* data/tariffs *)

StateCodes ==
    {"AC", "AL", "AP", "AM", "BA", "CE", "DF", "ES", "GO", "MA", "MT", "MS",
     "MG", "PA", "PB", "PR", "PE", "PI", "RJ", "RN", "RS", "RO", "RR", "SC",
     "SP", "SE", "TO"}

\* centavos per kWh
BRAZIL_TARIFFS ==
    [c \in StateCodes \cup {"BR"} |->
        CASE c = "AC" -> 98  [] c = "AL" -> 89  [] c = "AP" -> 85  [] c = "AM" -> 95
          [] c = "BA" -> 92  [] c = "CE" -> 90  [] c = "DF" -> 83  [] c = "ES" -> 88
          [] c = "GO" -> 86  [] c = "MA" -> 94  [] c = "MT" -> 91  [] c = "MS" -> 93
          [] c = "MG" -> 95  [] c = "PA" -> 99  [] c = "PB" -> 87  [] c = "PR" -> 84
          [] c = "PE" -> 91  [] c = "PI" -> 96  [] c = "RJ" -> 115 [] c = "RN" -> 88
          [] c = "RS" -> 85  [] c = "RO" -> 89  [] c = "RR" -> 90  [] c = "SC" -> 78
          [] c = "SP" -> 92  [] c = "SE" -> 88  [] c = "TO" -> 93  [] c = "BR" -> 90]

\* the two-letter code spelled by characters i, i+1 of s ("" when none)
CodeAt(s, i) ==
    LET c == s[i] \o s[i + 1]
    IN IF c \in StateCodes THEN c ELSE ""

\* positions where /\b(AC|AL|...|TO)\b/ matches the upper-cased address
MatchPositions(address) ==
    LET u == toUpperCase(address)
    IN {i \in 1..(Len(u) - 1) :
            /\ CodeAt(u, i) # ""
            /\ WordBoundary(u, i)
            /\ WordBoundary(u, i + 2)}

\* a variant that takes the last match instead of the first
getTariffByState_LastMatch(address) ==
    LET ms == MatchPositions(address)
    IN IF ms # {}
       THEN LET last == CHOOSE i \in ms : \A j \in ms : i >= j
            IN BRAZIL_TARIFFS[CodeAt(toUpperCase(address), last)]
       ELSE BRAZIL_TARIFFS["BR"]

\* lines 326-335: String.prototype.match returns the leftmost match
getTariffByState(address) ==
    LET ms == MatchPositions(address)
    IN IF ms # {}
       THEN LET first == CHOOSE i \in ms : \A j \in ms : i <= j
            IN BRAZIL_TARIFFS[CodeAt(toUpperCase(address), first)]
       ELSE BRAZIL_TARIFFS["BR"]

\* getTariffByState was not called yet
NoTariff == [called |-> FALSE, value |-> 0]

\* one call of getTariffByState on tarAddress
TarCall ==
    /\ ~tarResult.called
    /\ tarResult' = [called |-> TRUE, value |-> getTariffByState(tarAddress)]
    /\ UNCHANGED <<tarAddress, llmParsed, llmResult,
                   geoVars, solVars, repVars, appVars, runVars, uiVars>>

---------------------------------------------------------------------------
(* services/googleMapsService: getCoordinates *)

\* -23.5505 and -46.6333 in 1e-4 degrees
BASE_LAT == -235505
BASE_LNG == -466333

\* " (Modo Offline/Simulado)", " (Modo Demo)", " (Offline)"
MARK_OFFLINE_SIMULADO ==
    <<" ", "(", "M", "o", "d", "o", " ", "O", "f", "f", "l", "i", "n", "e",
      "/", "S", "i", "m", "u", "l", "a", "d", "o", ")">>
MARK_DEMO == <<" ", "(", "M", "o", "d", "o", " ", "D", "e", "m", "o", ")">>
MARK_OFFLINE == <<" ", "(", "O", "f", "f", "l", "i", "n", "e", ")">>

\* results[0] of a well-formed geocoding body
ProviderLocs ==
    { [lat |-> -235614, lng |-> -466559,
       formatted_address |-> <<"A", "v", ".", " ", "P", ",", " ", "S", "P">>],
      [lat |-> -229068, lng |-> -431729,
       formatted_address |-> <<"R", "u", "a", " ", "C", ",", " ", "R", "J">>] }
NoLoc == [lat |-> 0, lng |-> 0, formatted_address |-> <<>>]

\* What a fetch of the geocoding endpoint can produce.
\*   net  = "error": fetch rejects
\*   ok   : response.ok
\*   body = "nojson"    response.json() rejects
\*          "notok"     JSON whose status is not OK, or with no results[0]
\*          "malformed" status OK, results[0] without geometry.location
\*          "ok"        status OK, results[0] = loc
GeoNetError == [net |-> "error", ok |-> FALSE, body |-> "none", loc |-> NoLoc]
GeoResponses ==
    {GeoNetError}
    \cup {[net |-> "ok", ok |-> o, body |-> b, loc |-> NoLoc] :
            o \in BOOLEAN, b \in {"nojson", "notok", "malformed"}}
    \cup {[net |-> "ok", ok |-> o, body |-> "ok", loc |-> l] :
            o \in BOOLEAN, l \in ProviderLocs}

GeocodeResult(lat, lng, fa) == [lat |-> lat, lng |-> lng, formattedAddress |-> fa]

\* lines 27-35 and 44-55: read the body and return results[0] when status is OK
GeoReadBody(resp) ==
    IF resp.body = "nojson" THEN Throw
    ELSE IF resp.body = "notok" THEN FallThrough
    ELSE IF resp.body = "malformed" THEN Throw
    ELSE Return(GeocodeResult(resp.loc.lat, resp.loc.lng, resp.loc.formatted_address))

\* the try block of tier 1 (lines 24-35)
GeoProxyBlock(resp) ==
    IF resp.net = "error" THEN Throw
    ELSE IF ~resp.ok THEN Throw
    ELSE GeoReadBody(resp)

\* a variant of tier 1 whose exceptions escape (no try around the block)
GeoProxyTier_NoCatch(resp) == GeoProxyBlock(resp)

\* tier 1 with its catch (lines 23-38)
GeoProxyTier(resp) == TryCatchLogOnly(GeoProxyBlock(resp))

\* the try block of tier 2 (lines 42-55): response.ok is not looked at
GeoDirectBlock(resp) ==
    IF resp.net = "error" THEN Throw
    ELSE GeoReadBody(resp)

\* a variant of tier 2 that never returns what the provider answered
GeoDirectTier_AlwaysFallThrough(resp) == FallThrough

\* tier 2 with its catch (lines 41-58)
GeoDirectTier(resp) == TryCatchLogOnly(GeoDirectBlock(resp))

\* a variant of tier 3 that offsets the base coordinate by the address hash
GeoOfflineSimulation_Hashed(address) ==
    LET hash == SumSeq([i \in 1..Len(address) |-> CharCode(address[i])])
    IN GeocodeResult(BASE_LAT + (hash % 100), BASE_LNG + (hash % 50),
                     address \o MARK_OFFLINE_SIMULADO)

\* tier 3 (lines 61-65)
GeoOfflineSimulation(address) ==
    GeocodeResult(BASE_LAT, BASE_LNG, address \o MARK_OFFLINE_SIMULADO)

\* legacy, line 147: sum of the UTF-16 code units of the address
AddressHash(address) == SumSeq([i \in 1..Len(address) |-> CharCode(address[i])])

\* legacy, lines 141-156: the provider answered, but not with status OK
GeoLegacyDemo(address) ==
    LET hash == AddressHash(address)
        latOffset == hash % 100
        lngOffset == hash % 50
    IN GeocodeResult(BASE_LAT + latOffset, BASE_LNG + lngOffset, address \o MARK_DEMO)

\* legacy, the try block (lines 138-163)
GeoLegacyBlock(resp, address) ==
    IF resp.net = "error" THEN Throw
    ELSE IF resp.body = "nojson" THEN Throw
    ELSE IF resp.body = "notok" THEN Return(GeoLegacyDemo(address))
    ELSE IF resp.body = "malformed" THEN Throw
    ELSE Return(GeocodeResult(resp.loc.lat, resp.loc.lng, resp.loc.formatted_address))

\* legacy, the catch (lines 164-172)
GeoLegacyCatch(o, address) ==
    IF o.kind = "throw"
    THEN Return(GeocodeResult(BASE_LAT, BASE_LNG, address \o MARK_OFFLINE))
    ELSE o

GeoLegacyTier(resp, address) == GeoLegacyCatch(GeoLegacyBlock(resp, address), address)

\* getCoordinates is entered and issues its first request
GeoEnter(version, address) ==
    /\ geoPc = "idle"
    /\ geoVersion' = version
    /\ geoAddress' = address
    /\ geoPc' = IF version = "hybrid" THEN "proxy" ELSE "direct"
    /\ geoResult' = Pending
    /\ geoLog' = <<>>

\* a call of getCoordinates on its own
GeoCall(version, address) ==
    /\ GeoEnter(version, address)
    /\ UNCHANGED <<solVars, repVars, clientVars>>

\* the proxy request settles (hybrid only)
GeoProxyRespond(resp) ==
    /\ geoPc = "proxy"
    /\ LET o == GeoProxyTier(resp)
       IN /\ geoLog' = Append(geoLog, [tier |-> "proxy", resp |-> resp])
          /\ IF o.kind = "fallthrough"
             THEN /\ geoPc' = "direct"
                  /\ UNCHANGED geoResult
             ELSE /\ geoPc' = "done"
                  /\ geoResult' = Settle(o)
    /\ UNCHANGED <<geoVersion, geoAddress, solVars, repVars, clientVars>>

\* the direct request settles; the function then returns
GeoDirectRespond(resp) ==
    /\ geoPc = "direct"
    /\ LET o == IF geoVersion = "hybrid"
                THEN GeoDirectTier(resp)
                ELSE GeoLegacyTier(resp, geoAddress)
       IN IF o.kind = "fallthrough"
          THEN /\ geoResult' = Resolved(GeoOfflineSimulation(geoAddress))
               /\ geoLog' = geoLog \o <<[tier |-> "direct", resp |-> resp],
                                       [tier |-> "synthetic", resp |-> GeoNetError]>>
          ELSE /\ geoResult' = Settle(o)
               /\ geoLog' = Append(geoLog, [tier |-> "direct", resp |-> resp])
    /\ geoPc' = "done"
    /\ UNCHANGED <<geoVersion, geoAddress, solVars, repVars, clientVars>>


\* String.prototype.includes
TextIncludes(s, sub) ==
    \E i \in 1..(Len(s) - Len(sub) + 1) : SubSeq(s, i, i + Len(sub) - 1) = sub

\* the test the diagnostics make on a getCoordinates result (ApiTester
\* line 48, part_003 line 103): the result is taken for fallback data
IsFallbackResult(result) ==
    \/ TextIncludes(result.formattedAddress, <<"S", "i", "m", "u", "l", "a", "d", "o">>)
    \/ TextIncludes(result.formattedAddress, <<"O", "f", "f", "l", "i", "n", "e">>)

---------------------------------------------------------------------------
(* services/googleMapsService: getSolarInsights *)

MaxPanelsBound == 12

\* the JSON value a solar request yields; isNull marks the value null
SolarNull == [isNull |-> TRUE, hasPotential |-> FALSE,
              maxArrayPanelsCount |-> 0, areaMeters2 |-> 0]
SolarDatas ==
    {[isNull |-> FALSE, hasPotential |-> FALSE,
      maxArrayPanelsCount |-> 0, areaMeters2 |-> 0]}
    \cup {[isNull |-> FALSE, hasPotential |-> TRUE,
           maxArrayPanelsCount |-> p, areaMeters2 |-> a] :
            p \in {0, 2, MaxPanelsBound}, a \in {0, 40}}

SolNetError == [net |-> "error", ok |-> FALSE, body |-> "none", data |-> SolarNull]
SolResponses ==
    {SolNetError}
    \cup {[net |-> "ok", ok |-> o, body |-> "nojson", data |-> SolarNull] : o \in BOOLEAN}
    \cup {[net |-> "ok", ok |-> o, body |-> "json", data |-> d] :
            o \in BOOLEAN, d \in SolarDatas}

\* tier 1, the try block (lines 71-73)
SolProxyBlock(resp) ==
    IF resp.net = "error" THEN Throw
    ELSE IF ~resp.ok THEN Throw
    ELSE IF resp.body = "nojson" THEN Throw
    ELSE Return(resp.data)

\* tier 1 with its catch (lines 70-76)
SolProxyTier(resp) == TryCatchLogOnly(SolProxyBlock(resp))

\* tier 2, the try block (lines 81-84; legacy 180-187)
SolDirectBlock(resp) ==
    IF resp.net = "error" THEN Throw
    ELSE IF ~resp.ok THEN Return(SolarNull)
    ELSE IF resp.body = "nojson" THEN Throw
    ELSE Return(resp.data)

\* a variant of the catch that lets the exception through
SolDirectCatch_Rethrow(o) == o

\* the catch of tier 2 (lines 85-88; legacy 188-191)
SolDirectCatch(o) == IF o.kind = "throw" THEN Return(SolarNull) ELSE o

SolDirectTier(resp) == SolDirectCatch(SolDirectBlock(resp))

\* getSolarInsights is entered and issues its first request
SolEnter(version, lat, lng) ==
    /\ solPc = "idle"
    /\ solVersion' = version
    /\ solArgs' = [lat |-> lat, lng |-> lng]
    /\ solPc' = IF version = "hybrid" THEN "proxy" ELSE "direct"
    /\ solResult' = Pending
    /\ solLog' = <<>>

\* a call of getSolarInsights on its own
SolCall(version, lat, lng) ==
    /\ SolEnter(version, lat, lng)
    /\ UNCHANGED <<geoVars, repVars, clientVars>>

SolProxyRespond(resp) ==
    /\ solPc = "proxy"
    /\ LET o == SolProxyTier(resp)
       IN /\ solLog' = Append(solLog, [tier |-> "proxy", resp |-> resp])
          /\ IF o.kind = "fallthrough"
             THEN /\ solPc' = "direct"
                  /\ UNCHANGED solResult
             ELSE /\ solPc' = "done"
                  /\ solResult' = Settle(o)
    /\ UNCHANGED <<solVersion, solArgs, geoVars, repVars, clientVars>>

SolDirectRespond(resp) ==
    /\ solPc = "direct"
    /\ solLog' = Append(solLog, [tier |-> "direct", resp |-> resp])
    /\ solResult' = Settle(SolDirectTier(resp))
    /\ solPc' = "done"
    /\ UNCHANGED <<solVersion, solArgs, geoVars, repVars, clientVars>>


---------------------------------------------------------------------------
(* JSON values, as the narrative provider can return them *)

\* s is the text of a string (with {0}, {1} standing for interpolated
\* numbers a0, a1); a0 is the value of a number.
Undefined == [ty |-> "undefined", s |-> "", a0 |-> 0, a1 |-> 0]
Str(s) == [ty |-> "string", s |-> s, a0 |-> 0, a1 |-> 0]
Num(n) == [ty |-> "number", s |-> "", a0 |-> n, a1 |-> 0]

\* JavaScript truthiness, as || and if () test it
Truthy(v) ==
    \/ v.ty = "string" /\ v.s # ""
    \/ v.ty = "number" /\ v.a0 # 0

---------------------------------------------------------------------------
(* services/geminiService: parseGeminiJson *)

\* The lexical tokens of a provider text:
\*   fence "```"   jsonword "json"   nl "\n"   lbrace "{"   rbrace "}"
\*   null "null"   prose (any other text without braces or fences)
\*   kv   one "key": value member of an object (with its comma)
Tok(t) == [t |-> t, k |-> "", v |-> Undefined]
KV(k, v) == [t |-> "kv", k |-> k, v |-> v]
FENCE == Tok("fence")
JSONWORD == Tok("jsonword")
NL == Tok("nl")
LBRACE == Tok("lbrace")
RBRACE == Tok("rbrace")
NULLWORD == Tok("null")
PROSE == Tok("prose")

SubSeqOrEmpty(s, a, b) == IF a > b THEN <<>> ELSE SubSeq(s, a, b)

\* text.match(/```json\n([\s\S]*?)\n```/): the capture of the leftmost,
\* then shortest, match; [found |-> FALSE] when there is none
MatchJsonFence(text) ==
    LET n == Len(text)
        ms == {<<i, j>> \in (1..n) \X (1..n) :
                  /\ i + 3 <= j /\ j + 1 <= n
                  /\ text[i] = FENCE /\ text[i + 1] = JSONWORD /\ text[i + 2] = NL
                  /\ text[j] = NL /\ text[j + 1] = FENCE}
    IN IF ms = {} THEN [found |-> FALSE, capture |-> <<>>]
       ELSE LET m == CHOOSE m \in ms : \A o \in ms :
                        m[1] < o[1] \/ (m[1] = o[1] /\ m[2] <= o[2])
            IN [found |-> TRUE, capture |-> SubSeqOrEmpty(text, m[1] + 3, m[2] - 1)]

\* text.match(/```\n([\s\S]*?)\n```/)
MatchPlainFence(text) ==
    LET n == Len(text)
        ms == {<<i, j>> \in (1..n) \X (1..n) :
                  /\ i + 2 <= j /\ j + 1 <= n
                  /\ text[i] = FENCE /\ text[i + 1] = NL
                  /\ text[j] = NL /\ text[j + 1] = FENCE}
    IN IF ms = {} THEN [found |-> FALSE, capture |-> <<>>]
       ELSE LET m == CHOOSE m \in ms : \A o \in ms :
                        m[1] < o[1] \/ (m[1] = o[1] /\ m[2] <= o[2])
            IN [found |-> TRUE, capture |-> SubSeqOrEmpty(text, m[1] + 2, m[2] - 1)]

\* line 523-524: jsonMatch[1] || text
FencedPart(text) ==
    LET m1 == MatchJsonFence(text)
        m2 == MatchPlainFence(text)
        capture == IF m1.found THEN m1.capture
                   ELSE IF m2.found THEN m2.capture
                   ELSE text
    IN IF capture # <<>> THEN capture ELSE text

\* .replace(/```json/g, '')
RECURSIVE StripJsonFences(_)
StripJsonFences(s) ==
    IF s = <<>> THEN <<>>
    ELSE IF Len(s) >= 2 /\ s[1] = FENCE /\ s[2] = JSONWORD
         THEN StripJsonFences(SubSeqOrEmpty(s, 3, Len(s)))
         ELSE <<Head(s)>> \o StripJsonFences(Tail(s))

\* .replace(/```/g, '')
StripFences(s) == SelectSeq(s, LAMBDA t : t # FENCE)

\* .trim()
RECURSIVE TrimLeft(_)
TrimLeft(s) == IF s # <<>> /\ Head(s) = NL THEN TrimLeft(Tail(s)) ELSE s
RECURSIVE TrimRight(_)
TrimRight(s) ==
    IF s # <<>> /\ s[Len(s)] = NL THEN TrimRight(SubSeqOrEmpty(s, 1, Len(s) - 1)) ELSE s
Trim(s) == TrimRight(TrimLeft(s))

\* line 526: if (jsonStr.startsWith('json')) jsonStr = jsonStr.substring(4)
StripJsonWord(s) == IF s # <<>> /\ Head(s) = JSONWORD THEN Tail(s) ELSE s

\* lines 524-526
CleanJsonStr(text) == StripJsonWord(Trim(StripFences(StripJsonFences(FencedPart(text)))))

\* indexOf and lastIndexOf, 1-based, 0 for -1
IndexOf(s, t) ==
    IF \E i \in 1..Len(s) : s[i] = t
    THEN CHOOSE i \in 1..Len(s) : s[i] = t /\ \A j \in 1..(i - 1) : s[j] # t
    ELSE 0
LastIndexOf(s, t) ==
    IF \E i \in 1..Len(s) : s[i] = t
    THEN CHOOSE i \in 1..Len(s) : s[i] = t /\ \A j \in (i + 1)..Len(s) : s[j] # t
    ELSE 0

\* jsonStr.substring(firstBrace, lastBrace + 1): substring swaps its
\* arguments when the first is the larger
BraceSubstring(s, firstBrace, lastBrace) ==
    IF firstBrace <= lastBrace
    THEN SubSeqOrEmpty(s, firstBrace, lastBrace)
    ELSE SubSeqOrEmpty(s, lastBrace + 1, firstBrace - 1)

EmptyObject == [kind |-> "object", summary |-> Undefined, roofQuality |-> Undefined,
                systemSizeKw |-> Undefined, annualSavings |-> Undefined]
NullValue == [kind |-> "null", summary |-> Undefined, roofQuality |-> Undefined,
              systemSizeKw |-> Undefined, annualSavings |-> Undefined]

\* the value of member k of an object with members kvs: the last one wins
Member(kvs, k) ==
    LET hits == {i \in 1..Len(kvs) : kvs[i].k = k}
    IN IF hits = {} THEN Undefined
       ELSE kvs[CHOOSE i \in hits : \A j \in hits : j <= i].v

\* JSON.parse: an object, the value null, or a SyntaxError
JsonParse(s) ==
    LET w == SelectSeq(s, LAMBDA t : t # NL)
    IN IF /\ Len(w) >= 2 /\ w[1] = LBRACE /\ w[Len(w)] = RBRACE
          /\ \A i \in 2..(Len(w) - 1) : w[i].t = "kv"
       THEN LET kvs == SubSeqOrEmpty(w, 2, Len(w) - 1)
            IN Return([kind |-> "object",
                       summary |-> Member(kvs, "summary"),
                       roofQuality |-> Member(kvs, "roofQuality"),
                       systemSizeKw |-> Member(kvs, "systemSizeKw"),
                       annualSavings |-> Member(kvs, "annualSavings")])
       ELSE IF w = <<NULLWORD>> THEN Return(NullValue)
       ELSE Throw

\* the try block of parseGeminiJson (lines 523-535); hasText is FALSE when
\* the argument is undefined (text.match then throws)
ParseBlock(hasText, text) ==
    IF ~hasText THEN Throw
    ELSE LET jsonStr == CleanJsonStr(text)
             firstBrace == IndexOf(jsonStr, LBRACE)
             lastBrace == LastIndexOf(jsonStr, RBRACE)
         IN IF firstBrace # 0 /\ lastBrace # 0
            THEN JsonParse(BraceSubstring(jsonStr, firstBrace, lastBrace))
            ELSE Return(EmptyObject)

\* the catch of parseGeminiJson (lines 536-539)
ParseCatch(o) == IF o.kind = "throw" THEN Return(EmptyObject) ELSE o

parseGeminiJson(hasText, text) == ParseCatch(ParseBlock(hasText, text)).value

---------------------------------------------------------------------------
(* services/geminiService: generateSolarReportWithData, section 1 *)

PANEL_POWER_WATTS == 550
PANEL_PRICE_MARKET == 3200
AVG_IRRADIANCE == 125
\* PERFORMANCE_RATIO 0.75, in hundredths
PERFORMANCE_RATIO == 75
\* CO2_FACTOR 0.085, in thousandths
CO2_FACTOR == 85
\* the consolidated factor 115 kWh per kWp per month of lines 585 and 594
GENERATION_FACTOR == 115
SUNLIGHT_HOURS == 2000

\* line 602, in twentieths: 1.1, 1.05, 1.0, 0.9, 0.8, 0.75, 0.8, 0.9,
\* 0.95, 1.0, 1.1, 1.15
seasonality == <<22, 21, 20, 18, 16, 15, 16, 18, 19, 20, 22, 23>>

\* (0 / 0).toFixed(1) is "NaN"
NotANumber == 0 - 1

\* Math.ceil(n/d) for n >= 0, d > 0
MathCeil(n, d) == (n + d - 1) \div d

RECURSIVE Gcd(_, _)
Gcd(a, b) == IF b = 0 THEN a ELSE Gcd(b, a % b)

\* the rational n/d (n >= 0, d > 0), in lowest terms
Rat(n, d) == LET g == Gcd(n, d) IN [n |-> n \div g, d |-> d \div g]
RatLess(x, y) == x.n * y.d < y.n * x.d
RatMin(x, y) == IF RatLess(y, x) THEN y ELSE x

\* line 562: solarData && solarData.solarPotential
HasSolarPotential(solarData) == ~solarData.isNull /\ solarData.hasPotential

\* lines 570-571: neededSystemKw =
\*   (monthlyBill / tariff) / (AVG_IRRADIANCE * PERFORMANCE_RATIO / 100)
NeededSystemKw(tariff, monthlyBill) ==
    Rat(monthlyBill * 100 * 100 * 100, tariff * AVG_IRRADIANCE * PERFORMANCE_RATIO)

\* line 567
RoofCapacityKw(maxPanels) == Rat(maxPanels * PANEL_POWER_WATTS, 1000)

\* a variant of the bill-derived size with the 1.2 headroom of the solar branch
BillSystemKw_Headroom(tariff, monthlyBill) ==
    Rat(monthlyBill * 100 * 12, tariff * GENERATION_FACTOR * 10)

\* lines 582, 585: systemSizeKw = (monthlyBill / tariff) / 115
BillSystemKw(tariff, monthlyBill) == Rat(monthlyBill * 100, tariff * GENERATION_FACTOR)

\* a variant of the solar-branch size that gives the roof the 1.2 headroom too
SolarSystemKw_RoofHeadroom(tariff, monthlyBill, maxPanels) ==
    LET needed == NeededSystemKw(tariff, monthlyBill)
        roof == RoofCapacityKw(maxPanels)
    IN RatMin(Rat(roof.n * 12, roof.d * 10), Rat(needed.n * 12, needed.d * 10))

\* line 574: Math.min(roofCapacityKw, neededSystemKw * 1.2)
SolarSystemKw(tariff, monthlyBill, maxPanels) ==
    LET needed == NeededSystemKw(tariff, monthlyBill)
    IN RatMin(RoofCapacityKw(maxPanels), Rat(needed.n * 12, needed.d * 10))

\* lines 558-588: the size before rounding
RawSystemSizeKw(tariff, monthlyBill, solarData) ==
    IF HasSolarPotential(solarData)
    THEN SolarSystemKw(tariff, monthlyBill, solarData.maxArrayPanelsCount)
    ELSE BillSystemKw(tariff, monthlyBill)

\* line 591: Math.round(systemSizeKw * 100) / 100, in hundredths
RoundSystemSize(raw) == MathRound(raw.n * 100, raw.d)

\* lines 564, 586
EstMaxPanels(tariff, monthlyBill, solarData) ==
    IF HasSolarPotential(solarData)
    THEN solarData.maxArrayPanelsCount
    ELSE LET raw == BillSystemKw(tariff, monthlyBill)
         IN MathCeil(raw.n * 1000, raw.d * PANEL_POWER_WATTS)

\* a variant that grades a roof without solar data as Fair
EstRoofQuality_FairDefault(tariff, monthlyBill, solarData) ==
    IF HasSolarPotential(solarData)
    THEN IF RatLess(RoofCapacityKw(solarData.maxArrayPanelsCount),
                    NeededSystemKw(tariff, monthlyBill))
         THEN "Fair" ELSE "Excellent"
    ELSE "Fair"

\* lines 560, 577-578, 587
EstRoofQuality(tariff, monthlyBill, solarData) ==
    IF HasSolarPotential(solarData)
    THEN IF RatLess(RoofCapacityKw(solarData.maxArrayPanelsCount),
                    NeededSystemKw(tariff, monthlyBill))
         THEN "Fair" ELSE "Excellent"
    ELSE "Good"

\* line 603; entries in 1/200000 R$ (monthlySavingsValue is size * 115 *
\* tariff / 10^4 R$, each factor a number of twentieths)
MonthlySavingsArray(size, tariff) ==
    [i \in 1..Len(seasonality) |-> size * GENERATION_FACTOR * tariff * seasonality[i]]

\* a variant that divides the rounded figures the report carries
PaybackYears_FromRounded(size, tariff) ==
    LET cost == MathRound(size * PANEL_PRICE_MARKET, 100)
        annual == MathRound(size * GENERATION_FACTOR * tariff * 12, 10000)
    IN IF annual = 0 THEN NotANumber
       ELSE LET q == Rat(cost, annual) IN MathRound(10 * q.n, q.d)

\* line 598 and 675: Number((estimatedCost / annualSavings).toFixed(1)),
\* in tenths; 0/0 is NaN
PaybackYears(size, tariff) ==
    LET costN == size * PANEL_PRICE_MARKET * 100
        annualN == size * GENERATION_FACTOR * tariff * 12
    IN IF annualN = 0 THEN NotANumber
       ELSE LET q == Rat(costN, annualN) IN MathRound(10 * q.n, q.d)

\* lines 551-603: everything section 1 computes
Estimate(address, monthlyBill, solarData) ==
    LET tariff == getTariffByState(address)
        size == RoundSystemSize(RawSystemSizeKw(tariff, monthlyBill, solarData))
    IN [tariff |-> tariff,
        systemSizeKw |-> size,
        maxPanels |-> EstMaxPanels(tariff, monthlyBill, solarData),
        roofQuality |-> EstRoofQuality(tariff, monthlyBill, solarData),
        \* annualSavings in 1e-4 R$, estimatedCost in 1e-2 R$, co2 in 1e-8 t
        annualSavings |-> size * GENERATION_FACTOR * tariff * 12,
        estimatedCost |-> size * PANEL_PRICE_MARKET,
        paybackYears |-> PaybackYears(size, tariff),
        co2Offset |-> size * GENERATION_FACTOR * 12 * CO2_FACTOR,
        monthlySavingsArray |-> MonthlySavingsArray(size, tariff)]

---------------------------------------------------------------------------
(* services/geminiService: generateSolarReportWithData, sections 2 and 3 *)

DEFAULT_SUMMARY == "Economize gerando sua propria energia."
TEMPLATE_SUMMARY == "Com um sistema de {0} kWp, voce economiza R$ {1} por ano."

\* line 677: the template with systemSizeKw and Math.round(annualSavings)
TemplateSummary(est) ==
    [ty |-> "string", s |-> TEMPLATE_SUMMARY,
     a0 |-> est.systemSizeKw, a1 |-> MathRound(est.annualSavings, 10000)]

\* a variant of line 629 that leaves the summary to the template of line 677
DefaultGeminiData_NoSummary(est) ==
    [kind |-> "object", summary |-> Undefined,
     roofQuality |-> Str(est.roofQuality),
     systemSizeKw |-> Undefined, annualSavings |-> Undefined]

\* line 629
DefaultGeminiData(est) ==
    [kind |-> "object", summary |-> Str(DEFAULT_SUMMARY),
     roofQuality |-> Str(est.roofQuality),
     systemSizeKw |-> Undefined, annualSavings |-> Undefined]

\* lines 646 and 659: const parsed = ...; if (parsed.summary) geminiData = parsed.
\* Reading .summary of null throws a TypeError.
AdoptParsed(parsed, gd) ==
    IF parsed.kind = "null" THEN Throw
    ELSE IF Truthy(parsed.summary) THEN [kind |-> "fallthrough", value |-> parsed]
    ELSE [kind |-> "fallthrough", value |-> gd]

\* What the POST to /generate-report can produce.
\*   body = "nojson"  response.json() rejects
\*          "null"    the JSON value null
\*          "notext"  an object without a text member
\*          "text"    an object whose text member is text
NarrNetError == [net |-> "error", ok |-> FALSE, body |-> "none", text |-> <<>>]
NarrResponse(ok, body, text) == [net |-> "ok", ok |-> ok, body |-> body, text |-> text]

\* a variant of the inner try block in which nothing throws once the
\* response is 2xx
NarrProxyBlock_OkNeverThrows(resp, gd) ==
    IF resp.net = "error" THEN Throw
    ELSE IF ~resp.ok THEN Throw
    ELSE IF resp.body \in {"nojson", "null"} THEN [kind |-> "fallthrough", value |-> gd]
    ELSE LET parsed == parseGeminiJson(resp.body = "text", resp.text)
         IN IF parsed.kind = "null" THEN [kind |-> "fallthrough", value |-> gd]
            ELSE AdoptParsed(parsed, gd)

\* the inner try block (lines 634-649)
NarrProxyBlock(resp, gd) ==
    IF resp.net = "error" THEN Throw
    ELSE IF ~resp.ok THEN Throw
    ELSE IF resp.body = "nojson" THEN Throw
    ELSE IF resp.body = "null" THEN Throw
    ELSE AdoptParsed(parseGeminiJson(resp.body = "text", resp.text), gd)

\* What the client SDK call can produce: it throws (the constructor or
\* generateContent), or yields a result whose text is text (hasText FALSE:
\* result.text is undefined)
SdkThrows == [threw |-> TRUE, hasText |-> FALSE, text |-> <<>>]
SdkResult(hasText, text) == [threw |-> FALSE, hasText |-> hasText, text |-> text]

\* the inner catch block (lines 652-659): result.text || ""
NarrSdkBlock(out, gd) ==
    IF out.threw THEN Throw
    ELSE AdoptParsed(parseGeminiJson(TRUE, IF out.hasText THEN out.text ELSE <<>>), gd)

\* a variant without the outer try: the exception of the SDK tier escapes
NarrOuterCatch_Rethrow(o, gd) == o

\* the outer catch (lines 661-663): geminiData keeps its value
NarrOuterCatch(o, gd) ==
    IF o.kind = "throw" THEN [kind |-> "fallthrough", value |-> gd] ELSE o

\* a variant of the merge that spreads geminiData over the computed record
MergeReport_Spread(args, est, gd) ==
    [address |-> args.address,
     lat |-> args.lat,
     lng |-> args.lng,
     annualSavings |-> IF gd.annualSavings.ty = "number" THEN gd.annualSavings.a0
                       ELSE MathRound(est.annualSavings, 10000),
     sunlightHours |-> SUNLIGHT_HOURS,
     systemSizeKw |-> IF gd.systemSizeKw.ty = "number" THEN gd.systemSizeKw.a0
                      ELSE est.systemSizeKw,
     co2OffsetTons |-> est.co2Offset,
     estimatedCost |-> MathRound(est.estimatedCost, 100),
     paybackPeriodYears |-> est.paybackYears,
     monthlySavings |-> est.monthlySavingsArray,
     summary |-> IF Truthy(gd.summary) THEN gd.summary ELSE TemplateSummary(est),
     roofQuality |-> IF Truthy(gd.roofQuality) THEN gd.roofQuality
                     ELSE Str(est.roofQuality),
     roofAreaSqMeters |->
        IF HasSolarPotential(args.solarData) /\ args.solarData.areaMeters2 # 0
        THEN args.solarData.areaMeters2 * 100
        ELSE est.systemSizeKw * 6,
     localEnergyRate |-> est.tariff,
     monthlyBill |-> args.monthlyBill,
     maxPanels |-> est.maxPanels,
     solarPotential |-> IF HasSolarPotential(args.solarData)
                        THEN args.solarData ELSE SolarNull]

\* lines 666-684
MergeReport(args, est, gd) ==
    [address |-> args.address,
     lat |-> args.lat,
     lng |-> args.lng,
     annualSavings |-> MathRound(est.annualSavings, 10000),
     sunlightHours |-> SUNLIGHT_HOURS,
     systemSizeKw |-> est.systemSizeKw,
     co2OffsetTons |-> est.co2Offset,
     estimatedCost |-> MathRound(est.estimatedCost, 100),
     paybackPeriodYears |-> est.paybackYears,
     monthlySavings |-> est.monthlySavingsArray,
     summary |-> IF Truthy(gd.summary) THEN gd.summary ELSE TemplateSummary(est),
     roofQuality |-> IF Truthy(gd.roofQuality) THEN gd.roofQuality
                     ELSE Str(est.roofQuality),
     roofAreaSqMeters |->
        IF HasSolarPotential(args.solarData) /\ args.solarData.areaMeters2 # 0
        THEN args.solarData.areaMeters2 * 100
        ELSE est.systemSizeKw * 6,
     localEnergyRate |-> est.tariff,
     monthlyBill |-> args.monthlyBill,
     maxPanels |-> est.maxPanels,
     solarPotential |-> IF HasSolarPotential(args.solarData)
                        THEN args.solarData ELSE SolarNull]

\* the function's promise once the narrative step ended with o
ReportPromise(o, args, est) ==
    IF o.kind = "throw" THEN Rejected
    ELSE Resolved(MergeReport(args, est, o.value))

NoArgs == [address |-> <<>>, lat |-> 0, lng |-> 0, solarData |-> SolarNull,
           monthlyBill |-> 0]

\* generateSolarReportWithData is entered: section 1 runs, then the
\* narrative request is issued
RepEnter(address, lat, lng, solarData, monthlyBill) ==
    /\ repPc = "idle"
    /\ repArgs' = [address |-> address, lat |-> lat, lng |-> lng,
                   solarData |-> solarData, monthlyBill |-> monthlyBill]
    /\ repEst' = Estimate(address, monthlyBill, solarData)
    /\ geminiData' = DefaultGeminiData(repEst')
    /\ repPc' = "proxy"
    /\ repResult' = Pending
    /\ repLog' = <<>>

\* a call of generateSolarReportWithData on its own
RepCall(address, lat, lng, solarData, monthlyBill) ==
    /\ RepEnter(address, lat, lng, solarData, monthlyBill)
    /\ UNCHANGED <<geoVars, solVars, clientVars>>

\* the proxy request settles; unless the inner try threw, the function
\* merges and returns
RepProxyRespond(resp) ==
    /\ repPc = "proxy"
    /\ repLog' = Append(repLog, [tier |-> "proxy", resp |-> resp])
    /\ LET o == NarrProxyBlock(resp, geminiData)
       IN IF o.kind = "throw"
          THEN /\ repPc' = "sdk"
               /\ UNCHANGED <<geminiData, repResult>>
          ELSE /\ repPc' = "done"
               /\ geminiData' = o.value
               /\ repResult' = ReportPromise(o, repArgs, repEst)
    /\ UNCHANGED <<repArgs, repEst, geoVars, solVars, clientVars>>

\* the SDK call settles; the function merges and returns
RepSdkRespond(out) ==
    /\ repPc = "sdk"
    /\ repLog' = Append(repLog, [tier |-> "sdk", resp |-> out])
    /\ LET o == NarrOuterCatch(NarrSdkBlock(out, geminiData), geminiData)
       IN /\ geminiData' = IF o.kind = "throw" THEN geminiData ELSE o.value
          /\ repResult' = ReportPromise(o, repArgs, repEst)
    /\ repPc' = "done"
    /\ UNCHANGED <<repArgs, repEst, geoVars, solVars, clientVars>>


---------------------------------------------------------------------------
(* App: component state and handleSearch *)

\* report === null
NoReport == [isNull |-> TRUE]

\* installerProfile === null
NoProfile == [isNull |-> TRUE]

\* the bill handleSearch passes (line 370)
SEARCH_BILL == 300

\* the leads of the mount effect (lines 331-360); addresses abridged,
\* coordinates in 1e-4 degrees, sizes in hundredths of a kWp
INITIAL_LEADS ==
    << [id |-> "1", status |-> "available", price |-> 45,
        address |-> <<"A", "v", ".", " ", "P", ",", " ", "S", "P">>,
        lat |-> -235657, lng |-> -466514, estimatedSystemSize |-> 850],
       [id |-> "2", status |-> "sold", price |-> 40,
        address |-> <<"R", "u", "a", " ", "F", ",", " ", "P", "R">>,
        lat |-> -254284, lng |-> -492733, estimatedSystemSize |-> 520] >>

\* the mount effect of lines 329-362 applied to a leads list
LoadLeadsEffect(ls) == IF Len(ls) = 0 THEN INITIAL_LEADS ELSE ls

\* AddressAutocomplete is rendered (lines 514-529)
AcMounted == mode = "HOMEOWNER" /\ report = NoReport

\* what the continuation reads from an awaited promise; a promise that
\* did not resolve carries none of the fields (undefined)
AwaitedCoords(p) ==
    IF p.state = "resolved" THEN p.value ELSE GeocodeResult(0, 0, <<>>)
AwaitedSolar(p) == IF p.state = "resolved" THEN p.value ELSE SolarNull

\* a variant of await that does not wait for the promise
Awaited_NoWait(p) == TRUE

\* await p (lines 368-370): the continuation runs once p is settled
Awaited(p) == p.state # "pending"

\* the catch and finally of handleSearch (lines 372-376), ending a run
SearchCatch ==
    /\ alerted' = TRUE
    /\ loading' = FALSE
    /\ appPc' = "done"
    /\ runs' = Tail(runs)
    /\ runsStale' = Tail(runsStale)
    /\ UNCHANGED <<report, reportStale>>

\* lines 364-368: up to the first await
handleSearch(address) ==
    /\ appPc = "idle"
    /\ loading' = TRUE
    /\ report' = NoReport
    /\ appEntered' = address
    /\ appPc' = "geo"
    /\ runs' = Append(runs, address)
    /\ runsStale' = Append(runsStale, FALSE)
    /\ reportStale' = FALSE
    /\ GeoEnter("hybrid", address)
    /\ UNCHANGED <<solVars, repVars, tarVars, mode, installerProfile, leads,
                   showForm, alerted, uiVars>>

\* line 368 resumes, line 369 calls getSolarInsights
SearchGeoSettled ==
    /\ appPc = "geo"
    /\ Awaited(geoResult)
    /\ IF geoResult.state = "rejected"
       THEN SearchCatch /\ UNCHANGED solVars
       ELSE LET coords == AwaitedCoords(geoResult)
            IN /\ SolEnter("hybrid", coords.lat, coords.lng)
               /\ appPc' = "sol"
               /\ UNCHANGED <<loading, report, alerted, runs, runsStale, reportStale>>
    /\ UNCHANGED <<geoVars, repVars, tarVars, mode, installerProfile, leads,
                   showForm, appEntered, uiVars>>

\* line 369 resumes, line 370 calls generateSolarReportWithData
SearchSolSettled ==
    /\ appPc = "sol"
    /\ Awaited(solResult)
    /\ IF solResult.state = "rejected"
       THEN SearchCatch /\ UNCHANGED repVars
       ELSE LET coords == AwaitedCoords(geoResult)
            IN /\ RepEnter(coords.formattedAddress, coords.lat, coords.lng,
                           AwaitedSolar(solResult), SEARCH_BILL)
               /\ appPc' = "rep"
               /\ UNCHANGED <<loading, report, alerted, runs, runsStale, reportStale>>
    /\ UNCHANGED <<geoVars, solVars, tarVars, mode, installerProfile, leads,
                   showForm, appEntered, uiVars>>

\* line 370 resumes, lines 371 and 375 store the report
SearchRepSettled ==
    /\ appPc = "rep"
    /\ Awaited(repResult)
    /\ IF repResult.state = "rejected"
       THEN SearchCatch
       ELSE /\ report' = repResult.value
            /\ loading' = FALSE
            /\ appPc' = "done"
            /\ runs' = Tail(runs)
            /\ reportStale' = Head(runsStale)
            /\ runsStale' = Tail(runsStale)
            /\ UNCHANGED alerted
    /\ UNCHANGED <<geoVars, solVars, repVars, tarVars, mode, installerProfile,
                   leads, showForm, appEntered, uiVars>>

---------------------------------------------------------------------------
(* AddressAutocomplete and the App handlers around it.  Seen from the UI a *)
(* handleSearch run is its start (lines 365-366) and its end (lines 371,   *)
(* 375); SearchSettled ends a run with the report the services give when   *)
(* no provider can be reached.                                            *)

MaxRuns == 2
MaxPending == 2

\* String.prototype.trim on a text
RECURSIVE TextTrimLeft(_)
TextTrimLeft(s) == IF s # <<>> /\ Head(s) = " " THEN TextTrimLeft(Tail(s)) ELSE s
RECURSIVE TextTrimRight(_)
TextTrimRight(s) ==
    IF s # <<>> /\ s[Len(s)] = " " THEN TextTrimRight(SubSeq(s, 1, Len(s) - 1)) ELSE s
TextTrim(s) == TextTrimRight(TextTrimLeft(s))

\* autocompleteAddress (googleMapsService lines 101-111), settled
autocompleteAddress(input) ==
    IF Len(input) < 4 THEN <<>>
    ELSE << input \o <<",", " ", "S", "ã", "o", " ", "P", "a", "u", "l", "o", " ", "-", " ", "S", "P">>,
            input \o <<",", " ", "R", "i", "o", " ", "d", "e", " ", "J", "a", "n", "e", "i", "r", "o", " ", "-", " ", "R", "J">>,
            input \o <<",", " ", "C", "u", "r", "i", "t", "i", "b", "a", " ", "-", " ", "P", "R">>,
            <<"R", "u", "a", " ">> \o input
               \o <<",", " ", "B", "e", "l", "o", " ", "H", "o", "r", "i", "z", "o", "n", "t", "e", " ", "-", " ", "M", "G">>,
            <<"A", "v", "e", "n", "i", "d", "a", " ">> \o input
               \o <<",", " ", "B", "r", "a", "s", "í", "l", "i", "a", " ", "-", " ", "D", "F">> >>

\* the report of a run for which every provider request failed
OfflineReport(address) ==
    LET coords == GeoOfflineSimulation(address)
        args == [address |-> coords.formattedAddress, lat |-> coords.lat,
                 lng |-> coords.lng, solarData |-> SolarNull,
                 monthlyBill |-> SEARCH_BILL]
        est == Estimate(args.address, args.monthlyBill, args.solarData)
    IN MergeReport(args, est, DefaultGeminiData(est))

\* the component state of a freshly mounted AddressAutocomplete
AcFresh ==
    /\ uiInput' = <<>>
    /\ uiSuggestions' = <<>>
    /\ uiShow' = FALSE
    /\ uiPending' = <<>>

\* the component keeps its state while it stays rendered; once unmounted
\* its state is gone and its awaited continuations have no effect
AcRerender == IF AcMounted /\ AcMounted' THEN UNCHANGED uiVars ELSE AcFresh

\* lines 755-769 up to the await
handleInputChange(value) ==
    /\ AcMounted
    /\ uiInput' = value
    /\ IF Len(value) > 3
       THEN /\ Len(uiPending) < MaxPending
            /\ uiPending' = Append(uiPending, value)
            /\ UNCHANGED <<uiSuggestions, uiShow>>
       ELSE /\ uiSuggestions' = <<>>
            /\ uiShow' = FALSE
            /\ UNCHANGED uiPending
    /\ UNCHANGED <<geoVars, solVars, repVars, tarVars, appVars, runVars>>

\* line 762 resumes: lines 763-764
AutocompleteSettled ==
    /\ uiPending # <<>>
    /\ uiSuggestions' = autocompleteAddress(Head(uiPending))
    /\ uiShow' = TRUE
    /\ uiPending' = Tail(uiPending)
    /\ UNCHANGED <<uiInput, geoVars, solVars, repVars, tarVars, appVars, runVars>>

\* lines 746-750
handleClickOutside ==
    /\ AcMounted
    /\ uiShow' = FALSE
    /\ UNCHANGED <<uiInput, uiSuggestions, uiPending,
                   geoVars, solVars, repVars, tarVars, appVars, runVars>>

\* onSelect = handleSearch (line 529): lines 365-366, then the run is in flight
onSelect(address) ==
    /\ Len(runs) < MaxRuns
    /\ loading' = TRUE
    /\ report' = NoReport
    /\ runs' = Append(runs, address)
    /\ runsStale' = Append(runsStale, FALSE)
    /\ reportStale' = FALSE

\* the form's submit event (lines 778-783): a click on the button, which
\* line 801 disables, or Enter in the input, which submits through that
\* button
handleSubmit ==
    /\ AcMounted
    /\ ~(loading \/ Len(uiInput) < 3)
    /\ IF Len(TextTrim(uiInput)) > 3
       THEN onSelect(uiInput)
       ELSE UNCHANGED <<loading, report, runs, runsStale, reportStale>>
    /\ UNCHANGED <<uiVars, geoVars, solVars, repVars, tarVars, mode,
                   installerProfile, leads, showForm, appPc, appEntered, alerted>>

\* a click on suggestion i (lines 771-776, 810-816)
handleSelect(i) ==
    /\ AcMounted
    /\ uiShow /\ Len(uiSuggestions) > 0
    /\ i \in DOMAIN uiSuggestions
    /\ uiInput' = uiSuggestions[i]
    /\ uiSuggestions' = <<>>
    /\ uiShow' = FALSE
    /\ onSelect(uiSuggestions[i])
    /\ UNCHANGED <<uiPending, geoVars, solVars, repVars, tarVars, mode,
                   installerProfile, leads, showForm, appPc, appEntered, alerted>>

\* run i ends: lines 371 and 375
SearchSettled(i) ==
    /\ i \in DOMAIN runs
    /\ report' = OfflineReport(runs[i])
    /\ loading' = FALSE
    /\ runs' = SubSeq(runs, 1, i - 1) \o SubSeq(runs, i + 1, Len(runs))
    /\ reportStale' = runsStale[i]
    /\ runsStale' = SubSeq(runsStale, 1, i - 1) \o SubSeq(runsStale, i + 1, Len(runs))
    /\ UNCHANGED <<geoVars, solVars, repVars, tarVars, mode, installerProfile,
                   leads, showForm, appPc, appEntered, alerted>>
    /\ AcRerender

\* run i ends in the catch (lines 372-376): an awaited step rejected, as the
\* generateSolarReportWithData of geminiService lines 186-189 does
SearchFailed(i) ==
    /\ i \in DOMAIN runs
    /\ alerted' = TRUE
    /\ loading' = FALSE
    /\ runs' = SubSeq(runs, 1, i - 1) \o SubSeq(runs, i + 1, Len(runs))
    /\ runsStale' = SubSeq(runsStale, 1, i - 1) \o SubSeq(runsStale, i + 1, Len(runs))
    /\ UNCHANGED <<geoVars, solVars, repVars, tarVars, mode, installerProfile,
                   report, reportStale, leads, showForm, appPc, appEntered, uiVars>>

\* the user leaves the view the runs in flight were started from; cleared:
\* the step sets the report to null
UserLeaves(cleared) ==
    /\ runsStale' = IF runsStale = <<>> THEN <<>>
                    ELSE [i \in 1..Len(runsStale) |-> TRUE]
    /\ reportStale' = IF cleared THEN FALSE ELSE reportStale
    /\ UNCHANGED <<appPc, appEntered, alerted, runs>>

\* "Voltar a Busca" (lines 541-543), shown with a report
ClickVoltar ==
    /\ mode = "HOMEOWNER"
    /\ report # NoReport
    /\ report' = NoReport
    /\ UserLeaves(TRUE)
    /\ UNCHANGED <<geoVars, solVars, repVars, tarVars, mode, installerProfile,
                   loading, leads, showForm>>
    /\ AcRerender

\* the logo (line 464)
ClickLogo ==
    /\ mode' = "HOMEOWNER"
    /\ report' = NoReport
    /\ UserLeaves(TRUE)
    /\ UNCHANGED <<geoVars, solVars, repVars, tarVars, installerProfile,
                   loading, leads, showForm>>
    /\ AcRerender

\* the homeowner tab (line 475)
ClickHomeownerTab ==
    /\ mode' = "HOMEOWNER"
    /\ IF mode # "HOMEOWNER" THEN UserLeaves(FALSE) ELSE UNCHANGED runVars
    /\ UNCHANGED <<geoVars, solVars, repVars, tarVars, installerProfile,
                   loading, report, leads, showForm>>
    /\ AcRerender

\* the installer tab (line 482)
ClickInstallerTab ==
    /\ mode' = IF installerProfile # NoProfile THEN "INSTALLER" ELSE "LOGIN"
    /\ IF mode' # mode THEN UserLeaves(FALSE) ELSE UNCHANGED runVars
    /\ UNCHANGED <<geoVars, solVars, repVars, tarVars, installerProfile,
                   loading, report, leads, showForm>>
    /\ AcRerender

\* the profile handleLogin stores (lines 427-434)
INSTALLER_CREDITS == 450

\* lines 423-437, with the user name typed in the login form
handleLogin(user) ==
    /\ mode = "LOGIN"
    /\ IF user # ""
       THEN /\ installerProfile' = [isNull |-> FALSE, credits |-> INSTALLER_CREDITS]
            /\ mode' = "INSTALLER"
       ELSE UNCHANGED <<installerProfile, mode>>
    /\ UNCHANGED <<geoVars, solVars, repVars, tarVars, loading, report, leads,
                   showForm, runVars, uiVars>>

---------------------------------------------------------------------------
(* App: leads *)

MaxLeads == 4

\* the price handleLeadSubmit sets (line 405)
LEAD_PRICE == 50

\* onUnlock of the displayed report (line 549)
onUnlock ==
    /\ mode = "HOMEOWNER"
    /\ report # NoReport
    /\ showForm' = TRUE
    /\ UNCHANGED <<geoVars, solVars, repVars, tarVars, mode, installerProfile,
                   loading, report, leads, runVars, uiVars>>

\* the close button of the form (line 616)
CloseForm ==
    /\ showForm
    /\ showForm' = FALSE
    /\ UNCHANGED <<geoVars, solVars, repVars, tarVars, mode, installerProfile,
                   loading, report, leads, runVars, uiVars>>

\* a variant of the new lead that is created as sold
NewLead_Sold(id, rep) ==
    [id |-> id, status |-> "sold", price |-> LEAD_PRICE,
     address |-> rep.address, lat |-> rep.lat, lng |-> rep.lng,
     estimatedSystemSize |-> rep.systemSizeKw]

\* lines 394-407; id is what Math.random().toString(36).substr(2, 9) gives
NewLead(id, rep) ==
    [id |-> id, status |-> "available", price |-> LEAD_PRICE,
     address |-> rep.address, lat |-> rep.lat, lng |-> rep.lng,
     estimatedSystemSize |-> rep.systemSizeKw]

\* lines 390-414: the lead capture form is submitted
handleLeadSubmit(id) ==
    /\ showForm
    /\ IF report = NoReport
       THEN UNCHANGED <<leads, showForm, report>>
       ELSE /\ Len(leads) < MaxLeads
            /\ leads' = <<NewLead(id, report)>> \o leads
            /\ showForm' = FALSE
            /\ report' = NoReport
    /\ reportStale' = IF report = NoReport THEN reportStale ELSE FALSE
    /\ UNCHANGED <<geoVars, solVars, repVars, tarVars, mode, installerProfile,
                   loading, appPc, appEntered, alerted, runs, runsStale>>
    /\ AcRerender

\* a variant of the map function of buyLead that flips the status
BuyLeadMap_Toggle(lead, id) ==
    IF lead.id = id
    THEN [lead EXCEPT !.status = IF lead.status = "sold" THEN "available" ELSE "sold"]
    ELSE lead

\* the map function of lines 417-419
BuyLeadMap(lead, id) ==
    IF lead.id = id THEN [lead EXCEPT !.status = "sold"] ELSE lead

\* a variant of buyLead that takes the flat price off the credits
buyLead_Deducts(id) ==
    /\ mode = "INSTALLER"
    /\ installerProfile # NoProfile
    /\ leads' = [i \in DOMAIN leads |-> BuyLeadMap(leads[i], id)]
    /\ installerProfile' = [installerProfile EXCEPT !.credits = @ - LEAD_PRICE]
    /\ UNCHANGED <<geoVars, solVars, repVars, tarVars, mode,
                   loading, report, showForm, runVars, uiVars>>

\* lines 416-421, from the marketplace (line 603)
buyLead(id) ==
    /\ mode = "INSTALLER"
    /\ installerProfile # NoProfile
    /\ leads' = [i \in DOMAIN leads |-> BuyLeadMap(leads[i], id)]
    /\ UNCHANGED <<geoVars, solVars, repVars, tarVars, mode, installerProfile,
                   loading, report, showForm, runVars, uiVars>>

---------------------------------------------------------------------------
(* services/geminiService: the generators that take every figure of the
   report from the provider (generateSolarReport, lines 8-70, and the first
   generateSolarReportWithData, lines 88-190 and part_004 lines 430-490).
   Amounts are in twelfths of a R$. *)

\* a JSON value as far as truthiness and .length go; items holds the
\* entries of an array, the characters of a string, the value of a number
JsValue(ty, items) == [ty |-> ty, items |-> items]
JsUndefined == JsValue("undefined", <<>>)

\* !v is false
JsTruthy(v) ==
    \/ v.ty \in {"array", "object"}
    \/ v.ty = "string" /\ v.items # <<>>
    \/ v.ty = "number" /\ v.items # <<0>>

\* v.length === 12
JsLengthIs12(v) == v.ty \in {"array", "string"} /\ Len(v.items) = 12

\* data.annualSavings / 12, NaN when annualSavings is undefined or a text
\* that is not a number
AnnualOver12(data) ==
    IF data.annualSavings.ty = "number" THEN data.annualSavings.items[1] ELSE NotANumber

\* Array(12).fill(data.annualSavings / 12)
UniformSavings(data) == JsValue("array", [i \in 1..12 |-> AnnualOver12(data)])

\* lines 59-61, 181-183 and part_004 lines 481-483
EnsureMonthlySavings(data) ==
    IF ~JsTruthy(data.monthlySavings) \/ ~JsLengthIs12(data.monthlySavings)
    THEN [data EXCEPT !.monthlySavings = UniformSavings(data)]
    ELSE data

\* the generator's body from JSON.parse on: a text that does not parse
\* throws, and so does reading a member of null
LlmBlock(parsed) ==
    IF parsed.kind = "throw" THEN Throw
    ELSE IF parsed.value.kind = "null" THEN Throw
    ELSE Return(EnsureMonthlySavings(parsed.value))

NoLlmResult == [called |-> FALSE, version |-> "", promise |-> Pending]

\* one call of a generator; every version rethrows what its try block threw
LlmCall(version) ==
    /\ ~llmResult.called
    /\ llmResult' = [called |-> TRUE, version |-> version,
                     promise |-> Settle(LlmBlock(llmParsed))]
    /\ UNCHANGED <<llmParsed, tarAddress, tarResult,
                   geoVars, solVars, repVars, appVars, runVars, uiVars>>

---------------------------------------------------------------------------
(* Inputs and specifications *)

MaxBill == 5

\* monthly bills, R$: the smallest ones, the default 300 and larger ones
Bills == (1..MaxBill) \cup {150, 300, 587}

\* the coordinates handed to generateSolarReportWithData
SampleCoords == {[lat |-> BASE_LAT, lng |-> BASE_LNG]}

SolarInputs == {SolarNull} \cup SolarDatas

SUMMARY_TEXT == "Retorno rapido e imovel valorizado."

\* provider texts, as token sequences
SampleTexts ==
    { <<>>,
      <<PROSE>>,
      <<LBRACE, KV("summary", Str(SUMMARY_TEXT)), KV("roofQuality", Str("Excellent")), RBRACE>>,
      <<FENCE, JSONWORD, NL, LBRACE, KV("summary", Str(SUMMARY_TEXT)),
        KV("roofQuality", Str("Poor")), RBRACE, NL, FENCE>>,
      <<PROSE, NL, FENCE, NL, LBRACE, KV("summary", Str(SUMMARY_TEXT)), RBRACE, NL, FENCE, PROSE>>,
      <<JSONWORD, NL, LBRACE, KV("summary", Str(SUMMARY_TEXT)), KV("roofQuality", Str("Fair")), RBRACE>>,
      <<LBRACE, KV("roofQuality", Str("Fair")), RBRACE>>,
      <<LBRACE, KV("summary", Str("")), KV("roofQuality", Str("Poor")), RBRACE>>,
      <<LBRACE, KV("summary", Str(SUMMARY_TEXT)), KV("roofQuality", Str("Bom")), RBRACE>>,
      <<LBRACE, KV("summary", Str(SUMMARY_TEXT)), KV("systemSizeKw", Num(9999)),
        KV("annualSavings", Num(1)), RBRACE>>,
      <<LBRACE, KV("summary", Num(7)), RBRACE>>,
      <<LBRACE, KV("summary", Str(SUMMARY_TEXT))>>,
      <<LBRACE, PROSE, RBRACE>>,
      <<RBRACE, NULLWORD, LBRACE>> }

NarrResponses ==
    {NarrNetError}
    \cup {NarrResponse(FALSE, "notext", <<>>)}
    \cup {NarrResponse(TRUE, b, <<>>) : b \in {"nojson", "null", "notext"}}
    \cup {NarrResponse(TRUE, "text", t) : t \in SampleTexts}

SdkOutcomes ==
    {SdkThrows, SdkResult(FALSE, <<>>)}
    \cup {SdkResult(TRUE, t) : t \in SampleTexts}

\* no call made, the App and AddressAutocomplete freshly mounted
InitClient ==
    /\ tarResult = NoTariff
    /\ llmResult = NoLlmResult
    /\ mode = "HOMEOWNER"
    /\ installerProfile = NoProfile
    /\ loading = FALSE
    /\ report = NoReport
    /\ leads = LoadLeadsEffect(<<>>)
    /\ showForm = FALSE
    /\ appPc = "idle"
    /\ appEntered = <<>>
    /\ alerted = FALSE
    /\ runs = <<>>
    /\ runsStale = <<>>
    /\ reportStale = FALSE
    /\ uiInput = <<>>
    /\ uiSuggestions = <<>>
    /\ uiShow = FALSE
    /\ uiPending = <<>>

\* no service call made
InitServices ==
    /\ geoPc = "idle"
    /\ geoVersion = "hybrid"
    /\ geoAddress = <<>>
    /\ geoResult = Pending
    /\ geoLog = <<>>
    /\ solPc = "idle"
    /\ solVersion = "hybrid"
    /\ solArgs = [lat |-> 0, lng |-> 0]
    /\ solResult = Pending
    /\ solLog = <<>>
    /\ repPc = "idle"
    /\ repArgs = NoArgs
    /\ repEst = Estimate(<<>>, 0, SolarNull)
    /\ geminiData = EmptyObject
    /\ repResult = Pending
    /\ repLog = <<>>

Init ==
    /\ InitServices
    /\ InitClient
    /\ tarAddress = <<>>
    /\ llmParsed = Throw

\* one call of getCoordinates
NextGeo ==
    \/ \E v \in {"hybrid", "legacy"}, a \in SampleAddresses : GeoCall(v, a)
    \/ \E r \in GeoResponses : GeoProxyRespond(r)
    \/ \E r \in GeoResponses : GeoDirectRespond(r)

SpecGeo == Init /\ [][NextGeo]_vars

\* one call of getSolarInsights
NextSol ==
    \/ \E v \in {"hybrid", "legacy"}, c \in SampleCoords : SolCall(v, c.lat, c.lng)
    \/ \E r \in SolResponses : SolProxyRespond(r)
    \/ \E r \in SolResponses : SolDirectRespond(r)

SpecSol == Init /\ [][NextSol]_vars

\* one call of generateSolarReportWithData
NextRep ==
    \/ \E a \in SampleAddresses, c \in SampleCoords, d \in SolarInputs, b \in Bills :
          RepCall(a, c.lat, c.lng, d, b)
    \/ \E r \in NarrResponses : RepProxyRespond(r)
    \/ \E o \in SdkOutcomes : RepSdkRespond(o)

SpecRep == Init /\ [][NextRep]_vars

MaxAddressLen == 4

\* the characters the enumerated addresses are written with
TariffChars == {"A", "L", "S", "P", "C", "E", "s", " ", ","}

\* the texts of at most n characters
RECURSIVE TextsUpTo(_)
TextsUpTo(n) ==
    IF n = 0 THEN {<<>>}
    ELSE LET t == TextsUpTo(n - 1)
         IN t \cup {Append(x, c) : x \in t, c \in TariffChars}

\* two words of two letters, separated by a blank or by a comma and a blank
TwoWordAddresses ==
    LET letters == TariffChars \ {" ", ","}
        words == {<<a, b>> : a \in letters, b \in letters}
    IN {x \o sep \o y : x \in words, y \in words, sep \in {<<" ">>, <<",", " ">>}}

\* the short texts, the two-word texts and a few whole addresses
TariffAddresses ==
    TextsUpTo(MaxAddressLen) \cup TwoWordAddresses \cup SampleAddresses
    \cup { <<"A", "l", ".", " ", "B", ",", " ", "S", "P">>,
           <<"R", "u", "a", " ", "P", "e", ".", " ", "B", ",", " ", "S", "P">>,
           <<"R", "u", "a", " ", "B", ",", " ", "C", "E">>,
           <<"R", "u", "a", " ", "B", " ", "-", " ", "r", "r">> }

\* getTariffByState is called once, on any of the addresses
InitTariff ==
    /\ InitServices
    /\ InitClient
    /\ tarAddress \in TariffAddresses
    /\ llmParsed = Throw

NextTariff == TarCall

SpecTariff == InitTariff /\ [][NextTariff]_vars

\* the provider's monthlySavings: absent, null, numbers, texts of 0, 3 and
\* 12 characters, arrays of 0, 11, 12 and 13 amounts, an object
LlmMonthlySavings ==
    {JsUndefined, JsValue("null", <<>>), JsValue("number", <<0>>),
     JsValue("number", <<12>>), JsValue("object", <<>>)}
    \cup {JsValue("string", [i \in 1..n |-> "x"]) : n \in {0, 3, 12}}
    \cup {JsValue("array", [i \in 1..n |-> 1200 + i]) : n \in {0, 11, 12, 13}}
    \cup {JsValue("array", [i \in 1..12 |-> 0])}

LlmAnnualSavings ==
    {JsUndefined, JsValue("number", <<0>>), JsValue("number", <<14400>>),
     JsValue("string", <<"x">>)}

\* what JSON.parse gives: a SyntaxError, null, or an object
LlmParsedValues ==
    {Throw, Return([kind |-> "null"])}
    \cup {Return([kind |-> "object", monthlySavings |-> m, annualSavings |-> a]) :
            m \in LlmMonthlySavings, a \in LlmAnnualSavings}

LlmVersions == {"generateSolarReport", "generateSolarReportWithData",
                "generateSolarReportWithData (part_004)"}

InitLlm ==
    /\ InitServices
    /\ InitClient
    /\ tarAddress = <<>>
    /\ llmParsed \in LlmParsedValues

NextLlm == \E v \in LlmVersions : LlmCall(v)

SpecLlm == InitLlm /\ [][NextLlm]_vars

\* what the providers answer during a handleSearch run
AppGeoResponses ==
    { r \in GeoResponses :
        \/ r.net = "error"
        \/ r.ok /\ r.body = "notok"
        \/ r.ok /\ r.body = "ok" }
AppSolResponses ==
    { r \in SolResponses :
        \/ r.net = "error"
        \/ r.ok /\ r.body = "json" /\ r.data.hasPotential
              /\ r.data.maxArrayPanelsCount = MaxPanelsBound /\ r.data.areaMeters2 = 40 }
AppNarrResponses ==
    { NarrNetError,
      NarrResponse(TRUE, "text",
          <<LBRACE, KV("summary", Str(SUMMARY_TEXT)), KV("roofQuality", Str("Excellent")), RBRACE>>) }
AppSdkOutcomes == { SdkThrows, SdkResult(TRUE, <<LBRACE, KV("summary", Str(SUMMARY_TEXT)), RBRACE>>) }

\* one handleSearch run, step by step
NextApp ==
    \/ \E a \in SampleAddresses : handleSearch(a)
    \/ \E r \in AppGeoResponses : GeoProxyRespond(r)
    \/ \E r \in AppGeoResponses : GeoDirectRespond(r)
    \/ SearchGeoSettled
    \/ \E r \in AppSolResponses : SolProxyRespond(r)
    \/ \E r \in AppSolResponses : SolDirectRespond(r)
    \/ SearchSolSettled
    \/ \E r \in AppNarrResponses : RepProxyRespond(r)
    \/ \E o \in AppSdkOutcomes : RepSdkRespond(o)
    \/ SearchRepSettled

SpecApp == Init /\ [][NextApp]_vars

\* what the user types, clicks and logs in with
UiTexts == { <<"R", "u">>, <<"R", "u", "a", " ">>, <<"R", "u", "a", " ", "A">> }
SuggestionIndexes == 1..5
LoginUsers == {"", "ana"}
NewLeadIds == {"n1", "1"}
BuyLeadIds == {"1", "2", "n1", "new-99"}

\* the search screen: typing, suggestions, submitting, navigating
NextSearch ==
    \/ \E v \in UiTexts : handleInputChange(v)
    \/ AutocompleteSettled
    \/ handleClickOutside
    \/ handleSubmit
    \/ \E i \in SuggestionIndexes : handleSelect(i)
    \/ \E i \in 1..MaxRuns : SearchSettled(i)
    \/ \E i \in 1..MaxRuns : SearchFailed(i)
    \/ ClickVoltar
    \/ ClickLogo
    \/ ClickHomeownerTab
    \/ ClickInstallerTab
    \/ \E u \in LoginUsers : handleLogin(u)

SpecSearch == Init /\ [][NextSearch]_vars

\* leads: a report is obtained, the form submitted, leads bought
NextLeads ==
    \/ \E v \in {t \in UiTexts : Len(t) > 4} : handleInputChange(v)
    \/ AutocompleteSettled
    \/ handleSubmit
    \/ \E i \in 1..MaxRuns : SearchSettled(i)
    \/ onUnlock
    \/ CloseForm
    \/ ClickVoltar
    \/ \E id \in NewLeadIds : handleLeadSubmit(id)
    \/ ClickHomeownerTab
    \/ ClickInstallerTab
    \/ \E u \in LoginUsers : handleLogin(u)
    \/ \E id \in BuyLeadIds : buyLead(id)

SpecLeads == Init /\ [][NextLeads]_vars

---------------------------------------------------------------------------
(* Properties of getCoordinates, checked under SpecGeo *)

\* a geocoding response that does not yield results[0] of a status-OK body;
\* checkOk: the tier tests response.ok
GeoTierFailed(resp, checkOk) ==
    \/ resp.net = "error"
    \/ checkOk /\ ~resp.ok
    \/ resp.body \in {"nojson", "notok", "malformed"}

\* the call is over and no tier yielded a provider result
GeoAllTiersFailed ==
    /\ geoPc = "done"
    /\ \A i \in 1..Len(geoLog) :
          \/ geoLog[i].tier = "synthetic"
          \/ GeoTierFailed(geoLog[i].resp, geoLog[i].tier = "proxy")

C6_Original ==
    (GeoAllTiersFailed /\ geoVersion = "hybrid") =>
        geoResult.value =
            GeocodeResult(BASE_LAT + (AddressHash(geoAddress) % 100),
                          BASE_LNG + (AddressHash(geoAddress) % 50),
                          geoAddress \o MARK_OFFLINE_SIMULADO)

\* C6 amended: when both tiers of the hybrid getCoordinates fail, the result
\* is the address followed by " (Modo Offline/Simulado)" at exactly the base
\* coordinate, whatever the address.  The direct-only version adds the
\* character-sum offsets (hash % 100, hash % 50, in 1e-4 degrees) only when
\* the provider answered without status OK, marking " (Modo Demo)"; on a
\* network error, an unreadable body or a malformed result it returns the
\* base coordinate marked " (Offline)".
C6_SyntheticCoordinates ==
    GeoAllTiersFailed =>
        LET last == geoLog[Len(geoLog)].resp
            demo == geoVersion = "legacy" /\ last.net = "ok" /\ last.body = "notok"
        IN geoResult.value =
              IF geoVersion = "hybrid"
              THEN GeocodeResult(BASE_LAT, BASE_LNG, geoAddress \o MARK_OFFLINE_SIMULADO)
              ELSE IF demo
              THEN GeocodeResult(BASE_LAT + (AddressHash(geoAddress) % 100),
                                 BASE_LNG + (AddressHash(geoAddress) % 50),
                                 geoAddress \o MARK_DEMO)
              ELSE GeocodeResult(BASE_LAT, BASE_LNG, geoAddress \o MARK_OFFLINE)

\* C6 witness: both tiers of the hybrid version failed for an address whose
\* character sum is not a multiple of 100.
C6_Witness ==
    /\ GeoAllTiersFailed
    /\ geoVersion = "hybrid"
    /\ Len(geoLog) = 3
    /\ geoLog[1].resp.net = "error"
    /\ geoLog[2].resp.body = "notok"
    /\ AddressHash(geoAddress) % 100 # 0

---------------------------------------------------------------------------
(* Properties of getSolarInsights, checked under SpecSol *)

\* C3: getSolarInsights never rejects, and resolves to null whenever no tier
\* yields a 2xx response: a non-2xx direct response and a direct network
\* error both give null.
C3_SolarInsightsNullOnFailure ==
    solPc = "done" =>
        /\ solResult.state = "resolved"
        /\ (\A i \in 1..Len(solLog) :
                solLog[i].resp.net = "error" \/ ~solLog[i].resp.ok)
            => solResult.value = SolarNull

\* C3 witness: the proxy is unreachable and the provider answers non-2xx
\* with a JSON error body.
C3_Witness ==
    /\ solPc = "done"
    /\ solVersion = "hybrid"
    /\ Len(solLog) = 2
    /\ solLog[1].resp.net = "error"
    /\ solLog[2].resp.net = "ok" /\ ~solLog[2].resp.ok /\ solLog[2].resp.body = "json"
    /\ solResult = Resolved(SolarNull)

---------------------------------------------------------------------------
(* Properties of generateSolarReportWithData, checked under SpecRep *)

\* a provider text that cannot give an object with a summary: it has no
\* brace pair, or no summary member with a truthy value
NarrTextFails(text) ==
    \/ \A i \in 1..Len(text) : text[i] # LBRACE
    \/ \A i \in 1..Len(text) : text[i] # RBRACE
    \/ \A i \in 1..Len(text) :
          ~(text[i].t = "kv" /\ text[i].k = "summary" /\ Truthy(text[i].v))

\* a tier of the narrative step that did not give a summary
NarrTierFailed(entry) ==
    IF entry.tier = "proxy"
    THEN \/ entry.resp.net = "error"
         \/ ~entry.resp.ok
         \/ entry.resp.body # "text"
         \/ NarrTextFails(entry.resp.text)
    ELSE \/ entry.resp.threw
         \/ ~entry.resp.hasText
         \/ NarrTextFails(entry.resp.text)

\* the call is over and narrative generation failed
NarrativeFailed ==
    /\ repPc = "done"
    /\ \A i \in 1..Len(repLog) : NarrTierFailed(repLog[i])

IsNonEmptyString(v) == v.ty = "string" /\ v.s # ""

\* C2: generateSolarReportWithData never rejects because of narrative
\* generation: whatever the proxy request and the SDK call produce, the
\* promise resolves, and when both fail to give a summary the report's
\* summary is still a non-empty string.
C2_NarrativeNeverRejects ==
    repPc = "done" =>
        /\ repResult.state = "resolved"
        /\ NarrativeFailed => IsNonEmptyString(repResult.value.summary)

\* C2 witness: the proxy is unreachable and the SDK call throws.
C2_Witness ==
    /\ repPc = "done"
    /\ Len(repLog) = 2
    /\ repLog[1].resp.net = "error"
    /\ repLog[2].resp.threw
    /\ repResult.state = "resolved"

C5_Original ==
    (repPc = "done" /\ repResult.state = "resolved") =>
        LET r == repResult.value
            total == SumSeq(r.monthlySavings) \div 200000
        IN /\ Len(r.monthlySavings) = 12
           /\ total - r.annualSavings <= 2
           /\ r.annualSavings - total <= 2

\* C7: the narrative step changes only summary and roofQuality: every
\* numeric field of the report is what section 1 computes from address,
\* bill and solar data, whatever the narrative response carries.
C7_NarrativeLeavesNumbers ==
    (repPc = "done" /\ repResult.state = "resolved") =>
        LET r == repResult.value
            e == Estimate(repArgs.address, repArgs.monthlyBill, repArgs.solarData)
        IN /\ r.systemSizeKw = e.systemSizeKw
           /\ r.annualSavings = MathRound(e.annualSavings, 10000)
           /\ r.monthlySavings = e.monthlySavingsArray
           /\ r.estimatedCost = MathRound(e.estimatedCost, 100)
           /\ r.paybackPeriodYears = e.paybackYears
           /\ r.co2OffsetTons = e.co2Offset
           /\ r.localEnergyRate = e.tariff
           /\ r.maxPanels = e.maxPanels
           /\ r.lat = repArgs.lat /\ r.lng = repArgs.lng
           /\ r.monthlyBill = repArgs.monthlyBill

\* C7 witness: the adopted narrative object carries numeric fields of its own.
C7_Witness ==
    /\ repPc = "done"
    /\ repResult.state = "resolved"
    /\ geminiData.systemSizeKw = Num(9999)
    /\ geminiData.annualSavings = Num(1)
    /\ repResult.value.summary = Str(SUMMARY_TEXT)
    /\ repResult.value.systemSizeKw # 9999

RoofQualityLabels == {"Excellent", "Good", "Fair", "Poor"}

\* C8 as stated: in every returned report roofQuality is one of Excellent,
\* Good, Fair, Poor, whatever the narrative provider returns.
C8_Original ==
    (repPc = "done" /\ repResult.state = "resolved") =>
        repResult.value.roofQuality \in {Str(l) : l \in RoofQualityLabels}

\* C9 as stated: without solar-potential data, systemSizeKw equals
\* monthlyBill / tariff / 115 exactly.
C9_Original ==
    (repPc = "done" /\ repResult.state = "resolved"
        /\ ~HasSolarPotential(repArgs.solarData)) =>
        LET r == repResult.value
        IN r.systemSizeKw * r.localEnergyRate * 115 = r.monthlyBill * 100 * 100

\* C9 amended: without solar-potential data, systemSizeKw equals
\* monthlyBill / tariff / 115 rounded to two decimals (half up): no headroom
\* multiplier and no adjustment other than that rounding.
C9_BillSizeRoundedToCents ==
    (repPc = "done" /\ repResult.state = "resolved"
        /\ ~HasSolarPotential(repArgs.solarData)) =>
        LET r == repResult.value
            d == r.localEnergyRate * 115
            n == r.monthlyBill * 100 * 100
        IN /\ r.localEnergyRate = getTariffByState(repArgs.address)
           /\ 2 * (r.systemSizeKw * d - n) <= d
           /\ 2 * (r.systemSizeKw * d - n) > 0 - d

\* C9 witness: bill 300 at the SP tariff: 300 / 0.92 / 115 = 2.8355...,
\* reported as 2.84.
C9_Witness ==
    /\ repPc = "done"
    /\ repResult.state = "resolved"
    /\ ~HasSolarPotential(repArgs.solarData)
    /\ repResult.value.monthlyBill = 300
    /\ repResult.value.localEnergyRate = 92
    /\ repResult.value.systemSizeKw = 284

\* C10 as stated: without solar-potential data the report's roofQuality is
\* Good for every outcome of the narrative step.
C10_Original ==
    (repPc = "done" /\ repResult.state = "resolved"
        /\ ~HasSolarPotential(repArgs.solarData)) =>
        repResult.value.roofQuality = Str("Good")

\* C10 amended: without solar-potential data the Estimator's label is Good,
\* and the report's roofQuality is Good whenever the narrative step fails or
\* its adopted object has no truthy roofQuality; otherwise it is the
\* roofQuality the narrative object carries.
C10_GoodUnlessNarrativeOverrides ==
    (repPc = "done" /\ repResult.state = "resolved"
        /\ ~HasSolarPotential(repArgs.solarData)) =>
        /\ repEst.roofQuality = "Good"
        /\ NarrativeFailed => repResult.value.roofQuality = Str("Good")
        /\ repResult.value.roofQuality =
              IF Truthy(geminiData.roofQuality) THEN geminiData.roofQuality
              ELSE Str("Good")

\* C10 witness: no solar data, and the narrative object says Poor.
C10_Witness ==
    /\ repPc = "done"
    /\ repResult.state = "resolved"
    /\ repArgs.solarData = SolarNull
    /\ repResult.value.summary = Str(SUMMARY_TEXT)
    /\ repResult.value.roofQuality = Str("Poor")

---------------------------------------------------------------------------
(* Properties of the sizing rules, checked under SpecRep *)

\* the roof-limited capacity maxPanels * 0.55 kWp is below the need
\* monthlyBill / tariff / 0.9375 kWp of line 571 (tariff in centavos)
RoofBelowNeed(maxPanels, tariff, monthlyBill) ==
    maxPanels * 11 * tariff * 15 < monthlyBill * 32000

\* C11: with solar-potential data whose roof-limited capacity
\* (maxArrayPanelsCount x 550 W) is below the bill-derived need, the
\* Estimator's roofQuality is Fair and systemSizeKw is the roof-limited
\* capacity, maxArrayPanelsCount x 0.55 kWp.
C11_RoofLimitedIsFair ==
    (repPc = "done" /\ repResult.state = "resolved"
        /\ HasSolarPotential(repArgs.solarData)
        /\ RoofBelowNeed(repArgs.solarData.maxArrayPanelsCount,
                         getTariffByState(repArgs.address), repArgs.monthlyBill)) =>
        /\ repEst.roofQuality = "Fair"
        /\ repResult.value.systemSizeKw = repArgs.solarData.maxArrayPanelsCount * 55
        /\ repResult.value.maxPanels = repArgs.solarData.maxArrayPanelsCount

\* C11 witness: bill 300 at the SP tariff on a roof of 12 panels: the need is
\* 347.8 kWp, the roof holds 6.6 kWp.
C11_Witness ==
    /\ repPc = "done"
    /\ repResult.state = "resolved"
    /\ HasSolarPotential(repArgs.solarData)
    /\ repArgs.solarData.maxArrayPanelsCount = MaxPanelsBound
    /\ repArgs.monthlyBill = 300
    /\ repResult.value.localEnergyRate = 92
    /\ repEst.roofQuality = "Fair"
    /\ repResult.value.systemSizeKw = MaxPanelsBound * 55

\* the roof-limited capacity is at least 1.2 x the need of line 571 (and so
\* at least 1.2 x the smaller target monthlyBill / tariff / 115 of line 585)
RoofCoversHeadroom(maxPanels, tariff, monthlyBill) ==
    maxPanels * 11 * tariff * 15 * 10 >= monthlyBill * 32000 * 12

\* C12 as stated: both branches derive the same target capacity from bill
\* and tariff: with solar data and a roof holding at least 1.2 x the target,
\* systemSizeKw is 1.2 x the systemSizeKw of the no-solar branch for the
\* same address and bill (within 0.011 kWp of rounding) and the
\* Estimator's roofQuality is Excellent.
C12_Original ==
    (repPc = "done" /\ repResult.state = "resolved"
        /\ HasSolarPotential(repArgs.solarData)
        /\ RoofCoversHeadroom(repArgs.solarData.maxArrayPanelsCount,
                              getTariffByState(repArgs.address), repArgs.monthlyBill)) =>
        LET noSolar == Estimate(repArgs.address, repArgs.monthlyBill, SolarNull)
            diff == 10 * repResult.value.systemSizeKw - 12 * noSolar.systemSizeKw
        IN /\ repEst.roofQuality = "Excellent"
           /\ diff <= 11
           /\ diff >= 0 - 11

---------------------------------------------------------------------------
(* Properties of the financial figures, checked under SpecRep *)

\* C13 as stated: paybackPeriodYears is the report's estimatedCost divided
\* by the report's annualSavings, to one decimal.
C13_Original ==
    (repPc = "done" /\ repResult.state = "resolved"
        /\ repResult.value.annualSavings > 0) =>
        LET r == repResult.value
            err == r.paybackPeriodYears * r.annualSavings - 10 * r.estimatedCost
        IN /\ 2 * err <= r.annualSavings
           /\ 2 * err >= 0 - r.annualSavings

\* C13 amended: paybackPeriodYears is the quotient of the unrounded cost
\* (systemSizeKw x 3200) by the unrounded annual savings (systemSizeKw x 115
\* x tariff x 12), to one decimal: 3200 / (1380 x tariff) whenever
\* systemSizeKw > 0, and NaN when systemSizeKw is 0.  The report's
\* estimatedCost and annualSavings are those two quantities rounded to
\* whole R$, so their own quotient can differ from it in the last decimal.
C13_PaybackFromUnrounded ==
    (repPc = "done" /\ repResult.state = "resolved") =>
        LET r == repResult.value
            perKw == GENERATION_FACTOR * r.localEnergyRate * 12
            err == r.paybackPeriodYears * perKw - 10 * PANEL_PRICE_MARKET * 100
        IN /\ r.estimatedCost = MathRound(r.systemSizeKw * PANEL_PRICE_MARKET, 100)
           /\ r.annualSavings = MathRound(r.systemSizeKw * perKw, 10000)
           /\ r.systemSizeKw = 0 => r.paybackPeriodYears = NotANumber
           /\ r.systemSizeKw > 0 => /\ 2 * err <= perKw
                                    /\ 2 * err >= 0 - perKw

\* C13 witness: bill 1 at the SC tariff without solar data: 0.01 kWp costs
\* R$ 32 and saves R$ 10.764 a year, reported as 11; the payback is 3.0
\* years, while 32 / 11 is 2.9.
C13_Witness ==
    /\ repPc = "done"
    /\ repResult.state = "resolved"
    /\ repResult.value.systemSizeKw = 1
    /\ repResult.value.localEnergyRate = 78
    /\ repResult.value.estimatedCost = 32
    /\ repResult.value.annualSavings = 11
    /\ repResult.value.paybackPeriodYears = 30

\* C14 as stated: for every monthlyBill > 0 and tariff > 0, with or without
\* solar data (maxArrayPanelsCount = 0 included), annualSavings is positive
\* and paybackPeriodYears is a finite number: estimatedCost / annualSavings
\* never divides by zero.
C14_Original ==
    (repPc = "done" /\ repResult.state = "resolved"
        /\ repArgs.monthlyBill > 0 /\ repResult.value.localEnergyRate > 0) =>
        /\ repEst.annualSavings > 0
        /\ repResult.value.paybackPeriodYears # NotANumber

---------------------------------------------------------------------------
(* Properties of getTariffByState, checked under SpecTariff *)

\* the positions where a two-letter word of the text, taken without regard
\* to case, is a state code: a word is a maximal run of letters, digits, _
StateTokens(text) ==
    LET u == toUpperCase(text)
        isWord(i) == i >= 1 /\ i <= Len(u) /\ IsWordChar(u[i])
    IN {i \in 1..(Len(u) - 1) :
            /\ isWord(i) /\ isWord(i + 1)
            /\ ~isWord(i - 1) /\ ~isWord(i + 2)
            /\ (u[i] \o u[i + 1]) \in StateCodes}

StateTokenAt(text, i) == toUpperCase(text)[i] \o toUpperCase(text)[i + 1]

TextEndsWith(text, suffix) ==
    /\ Len(text) >= Len(suffix)
    /\ SubSeq(text, Len(text) - Len(suffix) + 1, Len(text)) = suffix

TariffValues == {BRAZIL_TARIFFS[c] : c \in DOMAIN BRAZIL_TARIFFS}

\* C15 as stated: getTariffByState returns a number of the table; for an
\* address with a state-code token it is the constant of such a state, the
\* SP constant for an address ending in ", SP"; and it is the fallback 0.90
\* if and only if the address has no state-code token.
C15_Original ==
    tarResult.called =>
        LET tokens == StateTokens(tarAddress)
        IN /\ tarResult.value \in TariffValues
           /\ tokens # {} =>
                 \E i \in tokens :
                    tarResult.value = BRAZIL_TARIFFS[StateTokenAt(tarAddress, i)]
           /\ TextEndsWith(tarAddress, <<",", " ", "S", "P">>) =>
                 tarResult.value = BRAZIL_TARIFFS["SP"]
           /\ tarResult.value = BRAZIL_TARIFFS["BR"] <=> tokens = {}

\* C15 amended: getTariffByState returns a number of the table: the
\* constant of the first (leftmost) state-code token of the address, taken
\* without regard to case, and the BR fallback entry when there is no such
\* token.  An address ending in ", SP" yields the SP constant when no
\* earlier token is a state code.  The value 0.90 does not tell that no
\* token was found: it is also the constant of CE and RR.
C15_FirstTokenOrFallback ==
    tarResult.called =>
        LET tokens == StateTokens(tarAddress)
        IN /\ tarResult.value \in TariffValues
           /\ tokens = {} => tarResult.value = BRAZIL_TARIFFS["BR"]
           /\ \A i \in tokens :
                 (\A j \in tokens : i <= j) =>
                    tarResult.value = BRAZIL_TARIFFS[StateTokenAt(tarAddress, i)]
           /\ (TextEndsWith(tarAddress, <<",", " ", "S", "P">>)
                 /\ tokens = {Len(tarAddress) - 1}) =>
                 tarResult.value = BRAZIL_TARIFFS["SP"]

\* C15 witness: "Al. B, SP" ends in ", SP" and yields the AL constant.
C15_Witness ==
    /\ tarResult.called
    /\ tarAddress = <<"A", "l", ".", " ", "B", ",", " ", "S", "P">>
    /\ StateTokens(tarAddress) = {1, 8}
    /\ tarResult.value = BRAZIL_TARIFFS["AL"]
    /\ tarResult.value # BRAZIL_TARIFFS["SP"]

---------------------------------------------------------------------------
(* Properties of a handleSearch run, checked under SpecApp *)

\* the run is over and stored a report
SearchStoredReport == appPc = "done" /\ report # NoReport

\* C16 as stated: the tariff of the report depends only on the address the
\* user entered: it is the tariff of that text, and so the tariff of the run
\* for the same entered address whose geocoding fell back to the synthetic
\* result.
C16_Original ==
    SearchStoredReport =>
        /\ report.localEnergyRate = getTariffByState(appEntered)
        /\ report.localEnergyRate =
              getTariffByState(GeoOfflineSimulation(appEntered).formattedAddress)

\* the external requests in flight: geocoding, solar potential, narrative
RequestsInFlight ==
    (IF geoPc \in {"proxy", "direct"} THEN 1 ELSE 0)
    + (IF solPc \in {"proxy", "direct"} THEN 1 ELSE 0)
    + (IF repPc \in {"proxy", "sdk"} THEN 1 ELSE 0)

\* C17: the steps of one handleSearch run are strictly sequential: the
\* solar-potential request is issued only after geocoding has completed,
\* the estimator runs only after the solar-potential fetch has completed and
\* on the geocoded coordinates and the fetched data, the narrative request
\* is issued only with the estimator's numbers computed, the report is
\* stored only after the narrative step has completed, and at most one
\* external request of the run is in flight at any time.
C17_StepsSequential ==
    /\ RequestsInFlight <= 1
    /\ solPc # "idle" =>
          /\ geoPc = "done" /\ geoResult.state = "resolved"
          /\ solArgs = [lat |-> geoResult.value.lat, lng |-> geoResult.value.lng]
    /\ repPc # "idle" =>
          /\ solPc = "done" /\ solResult.state = "resolved"
          /\ repArgs.lat = geoResult.value.lat
          /\ repArgs.lng = geoResult.value.lng
          /\ repArgs.address = geoResult.value.formattedAddress
          /\ repArgs.solarData = solResult.value
          /\ repEst = Estimate(repArgs.address, repArgs.monthlyBill, repArgs.solarData)
    /\ report # NoReport =>
          /\ repPc = "done" /\ repResult.state = "resolved"
          /\ report = repResult.value
    /\ appPc = "geo" => solPc = "idle" /\ repPc = "idle"
    /\ appPc = "sol" => repPc = "idle"

\* C17 witness: a run in which every tier of every step was used, over.
C17_Witness ==
    /\ appPc = "done"
    /\ report # NoReport
    /\ Len(geoLog) = 3
    /\ Len(solLog) = 2
    /\ Len(repLog) = 2

---------------------------------------------------------------------------
(* Order of the tiers of getCoordinates, checked under SpecGeo *)

\* the tiers of geoLog, in the order they were attempted
GeoTiersTried == [i \in 1..Len(geoLog) |-> geoLog[i].tier]

\* C18: in the tiered getCoordinates each tier is attempted at most once
\* per call and in the order proxy, direct, synthetic; the direct provider
\* is called only after the proxy request gave no result of a status-OK
\* body (network error, non-2xx, unreadable body, status not OK or no usable
\* first result), and exactly then; the synthetic tier is used only after
\* the direct request gave none either; when the proxy gave a result the
\* call ends with it and the direct provider is never called.
C18_TiersInOrderAtMostOnce ==
    geoVersion = "hybrid" =>
        /\ \E n \in 0..3 : GeoTiersTried = SubSeq(<<"proxy", "direct", "synthetic">>, 1, n)
        /\ geoPc = "proxy" => geoLog = <<>>
        /\ geoPc = "direct" => Len(geoLog) = 1
        /\ Len(geoLog) >= 2 => GeoTierFailed(geoLog[1].resp, TRUE)
        /\ Len(geoLog) = 3 => GeoTierFailed(geoLog[2].resp, FALSE)
        /\ geoPc = "direct" => GeoTierFailed(geoLog[1].resp, TRUE)
        /\ geoPc = "done" /\ Len(geoLog) = 1 =>
              /\ ~GeoTierFailed(geoLog[1].resp, TRUE)
              /\ geoResult = Resolved(GeocodeResult(geoLog[1].resp.loc.lat,
                                                    geoLog[1].resp.loc.lng,
                                                    geoLog[1].resp.loc.formatted_address))
        /\ geoPc = "done" /\ Len(geoLog) = 2 => ~GeoTierFailed(geoLog[2].resp, FALSE)
        /\ geoPc = "done" => Len(geoLog) >= 1

\* C18 witness: the proxy answered non-2xx, the direct provider was then
\* called once and its result ended the call without the synthetic tier.
C18_Witness ==
    /\ geoVersion = "hybrid"
    /\ geoPc = "done"
    /\ GeoTiersTried = <<"proxy", "direct">>
    /\ geoLog[1].resp.net = "ok" /\ ~geoLog[1].resp.ok /\ geoLog[1].resp.body = "ok"
    /\ geoLog[2].resp.body = "ok"

---------------------------------------------------------------------------
(* The leads list, checked under SpecLeads *)

\* one step keeps every lead of the list, in order and with its own data,
\* behind the leads the step adds; a sold lead stays sold
LeadsKept(old, new) ==
    /\ Len(new) >= Len(old)
    /\ \A i \in 1..Len(old) :
          LET kept == new[i + Len(new) - Len(old)]
          IN /\ [kept EXCEPT !.status = old[i].status] = old[i]
             /\ kept.status \in {"available", "sold"}
             /\ old[i].status = "sold" => kept.status = "sold"

\* C19: over any sequence of lead submissions and purchases no lead ever
\* leaves the leads list, and a lead whose status is sold never becomes
\* available again: the status only moves from available to sold.
C19_LeadsKeptSoldStaysSold == [][LeadsKept(leads, leads')]_vars

\* C19 witness: a lead submitted from a report was bought, next to the two
\* initial leads, the one sold from the start having been bought again.
C19_Witness ==
    /\ Len(leads) = 3
    /\ leads[1].id = "n1" /\ leads[1].status = "sold" /\ leads[1].price = LEAD_PRICE
    /\ leads[2].id = "1" /\ leads[2].status = "sold"
    /\ leads[3] = INITIAL_LEADS[2]

---------------------------------------------------------------------------
(* Overlapping runs, checked under SpecSearch *)

\* C20 as stated: while one handleSearch run is in flight no user action
\* (the submit button, Enter, a click on a suggestion) starts a second one:
\* at most one run is in flight at any time.
C20_Original == Len(runs) <= 1

---------------------------------------------------------------------------
(* Navigation during a run, checked under SpecSearch *)

\* C21 as stated: once the user has navigated away while a run is in flight
\* (cleared the report with "Voltar a Busca" or the logo, or switched the
\* mode), no run started before that moment makes a report displayed
\* again.
C21_Original == ~(mode = "HOMEOWNER" /\ report # NoReport /\ reportStale)

---------------------------------------------------------------------------
(* monthlySavings of the provider-computed reports, checked under SpecLlm *)

\* the provider's data as JSON.parse returned it
LlmUpstream == llmParsed.value

\* C22 as stated: every report a generator returns has a monthlySavings
\* sequence of exactly 12 entries, and when the provider's data has no
\* monthlySavings or one whose length is not 12, all 12 entries equal
\* annualSavings / 12.
C22_Original ==
    llmResult.called /\ llmResult.promise.state = "resolved" =>
        LET ms == llmResult.promise.value.monthlySavings
        IN /\ ms.ty = "array"
           /\ Len(ms.items) = 12
           /\ (~JsTruthy(LlmUpstream.monthlySavings)
                  \/ ~JsLengthIs12(LlmUpstream.monthlySavings)) =>
                 \A i \in 1..12 : ms.items[i] = AnnualOver12(LlmUpstream)

---------------------------------------------------------------------------
(* The end of a run, checked under SpecSearch *)

\* C23 as stated: when a handleSearch run fails, at its end an error
\* message has been shown, no report is displayed (the report is null) and
\* loading is false; loading is also false at the end of every successful
\* run.
C23_Original ==
    [][\A i \in 1..MaxRuns :
          /\ SearchFailed(i) => alerted' /\ report' = NoReport /\ ~loading'
          /\ SearchSettled(i) => ~loading']_vars

---------------------------------------------------------------------------
(* The tiers of the narrative step, checked under SpecRep *)

\* the tiers of repLog, in the order they were called
NarrTiersTried == [i \in 1..Len(repLog) |-> repLog[i].tier]

\* the client SDK was called
SdkCalled == repPc = "sdk" \/ Len(repLog) = 2

\* a text whose last closing brace comes before its first opening brace,
\* with nothing but the word null between them: what is parsed is null
NarrTextIsNull(text) ==
    \E i, j \in 1..Len(text) :
        /\ i < j
        /\ text[i] = RBRACE /\ text[j] = LBRACE
        /\ \A k \in 1..Len(text) : text[k] = RBRACE => k <= i
        /\ \A k \in 1..Len(text) : text[k] = LBRACE => k >= j
        /\ \E k \in (i + 1)..(j - 1) : text[k] = NULLWORD
        /\ \A k \in (i + 1)..(j - 1) : text[k] \in {NULLWORD, NL}
        /\ \A k \in 1..(i - 1) : text[k] \notin {FENCE, JSONWORD}

\* a 2xx proxy response the inner try block cannot read: its body is not
\* JSON, or is the value null, or its text holds the value null
NarrOkUnreadable(resp) ==
    /\ resp.net = "ok" /\ resp.ok
    /\ \/ resp.body \in {"nojson", "null"}
       \/ resp.body = "text" /\ NarrTextIsNull(resp.text)

\* C24 as stated: the client SDK is called if and only if the proxy request
\* failed with a network error or a non-2xx status; a 2xx response never
\* triggers the SDK call.
C24_Original ==
    repPc \in {"sdk", "done"} =>
        (SdkCalled <=> (repLog[1].resp.net = "error" \/ ~repLog[1].resp.ok))

\* C24: in the narrative step each tier is called at most once per run, the
\* proxy first; the client SDK is called if and only if the proxy request
\* failed with a network error or a non-2xx status, or answered 2xx with a
\* body that is not JSON, that is null, or whose text holds the value null.
\* A 2xx response whose text has no JSON object or no summary does not
\* trigger the SDK call.
C24_SdkIffProxyThrew ==
    /\ \E n \in 0..2 : NarrTiersTried = SubSeq(<<"proxy", "sdk">>, 1, n)
    /\ repPc = "proxy" => repLog = <<>>
    /\ repPc = "sdk" => Len(repLog) = 1
    /\ repPc = "done" => Len(repLog) >= 1
    /\ repPc \in {"sdk", "done"} =>
          (SdkCalled <=> \/ repLog[1].resp.net = "error"
                         \/ ~repLog[1].resp.ok
                         \/ NarrOkUnreadable(repLog[1].resp))

\* C24 witness: the proxy answered 2xx with a body that is not JSON and the
\* client SDK was called, once.
C24_Witness ==
    /\ repPc = "done"
    /\ NarrTiersTried = <<"proxy", "sdk">>
    /\ repLog[1].resp.net = "ok" /\ repLog[1].resp.ok
    /\ repLog[1].resp.body = "nojson"

---------------------------------------------------------------------------
(* The marker test of the diagnostics, checked under SpecGeo *)

\* C25 as stated: whenever getCoordinates returns coordinates that did not
\* come from the provider, formattedAddress contains "Simulado" or
\* "Offline", so the diagnostics never take a fallback result for a genuine
\* success.
C25_Original ==
    GeoAllTiersFailed /\ geoResult.state = "resolved" =>
        IsFallbackResult(geoResult.value)

---------------------------------------------------------------------------
(* The lead capture form, checked under SpecLeads *)

\* C26: handleLeadSubmit with a report stored adds exactly one lead, at the
\* front of the leads list, with status available, the flat price 50 and
\* the address, coordinates and system size of the current report; it
\* leaves the existing leads unchanged, clears the report and closes the
\* form.  With no report stored it changes nothing.
C26_LeadSubmitEffect ==
    [][(\E id \in NewLeadIds : handleLeadSubmit(id)) =>
          IF report = NoReport
          THEN UNCHANGED <<leads, report, showForm, mode, loading, installerProfile>>
          ELSE /\ Len(leads') = Len(leads) + 1
               /\ SubSeq(leads', 2, Len(leads')) = leads
               /\ leads'[1].status = "available"
               /\ leads'[1].price = 50
               /\ leads'[1].address = report.address
               /\ leads'[1].lat = report.lat
               /\ leads'[1].lng = report.lng
               /\ leads'[1].estimatedSystemSize = report.systemSizeKw
               /\ report' = NoReport
               /\ ~showForm'
               /\ UNCHANGED <<mode, loading, installerProfile>>]_vars

\* C26 witness: the form was submitted with a report stored: the new lead
\* is at the front, available, before the two initial leads, the report is
\* cleared and the form closed.
C26_Witness ==
    /\ Len(leads) = 3
    /\ leads[1].id = "n1" /\ leads[1].status = "available"
    /\ leads[1].address = OfflineReport(<<"R", "u", "a", " ", "A">>).address
    /\ SubSeq(leads, 2, 3) = INITIAL_LEADS
    /\ report = NoReport
    /\ ~showForm

---------------------------------------------------------------------------
(* Buying a lead, checked under SpecLeads *)

\* C27: buyLead(id) changes nothing except the status of the leads with
\* that id, which becomes sold: the other leads and the other fields of
\* the bought lead are unchanged, the installer's credits are unchanged,
\* buying a lead already sold changes nothing, and buying an id that is
\* not in the list (the notification's "new-99") leaves the list unchanged.
C27_BuyLeadFrame ==
    [][\A id \in BuyLeadIds : buyLead(id) =>
          /\ Len(leads') = Len(leads)
          /\ \A i \in 1..Len(leads) :
                /\ [leads'[i] EXCEPT !.status = leads[i].status] = leads[i]
                /\ leads'[i].status =
                      IF leads[i].id = id THEN "sold" ELSE leads[i].status
          /\ (\A i \in 1..Len(leads) : leads[i].id = id => leads[i].status = "sold")
                => leads' = leads
          /\ installerProfile' = installerProfile
          /\ installerProfile.credits = INSTALLER_CREDITS
          /\ UNCHANGED <<mode, loading, report, showForm, runVars, uiVars>>]_vars

\* C27 witness: the installer bought the available initial lead; it is
\* sold, the other initial lead is as it was and the credits are the 450
\* of the login.
C27_Witness ==
    /\ mode = "INSTALLER"
    /\ installerProfile # NoProfile
    /\ installerProfile.credits = 450
    /\ leads = <<[INITIAL_LEADS[1] EXCEPT !.status = "sold"], INITIAL_LEADS[2]>>

---------------------------------------------------------------------------
(* The suggestions of AddressAutocomplete, checked under SpecSearch *)

\* the suggestion list is displayed (line 808)
SuggestionsDisplayed == AcMounted /\ uiShow /\ Len(uiSuggestions) > 0

\* C28 as stated: under any interleaving of input changes with the delayed
\* autocompleteAddress responses, the suggestions displayed are those
\* computed for the current input, and none are displayed while the input
\* has 3 or fewer characters.
C28_Original ==
    SuggestionsDisplayed =>
        /\ Len(uiInput) > 3
        /\ uiSuggestions = autocompleteAddress(uiInput)

---------------------------------------------------------------------------
(* Addresses with several state-code tokens, checked under SpecTariff *)

\* the first and the last state-code token of a text that has one
FirstStateToken(text) == CHOOSE i \in StateTokens(text) : \A j \in StateTokens(text) : i <= j
LastStateToken(text) == CHOOSE i \in StateTokens(text) : \A j \in StateTokens(text) : i >= j

\* C29: when an address has more than one token equal to a state code,
\* getTariffByState returns the tariff of the first such token in text
\* order; it returns the tariff of the state named last only when the two
\* tariffs are the same number.
C29_FirstOfSeveralTokens ==
    tarResult.called /\ Cardinality(StateTokens(tarAddress)) > 1 =>
        LET first == StateTokenAt(tarAddress, FirstStateToken(tarAddress))
            last == StateTokenAt(tarAddress, LastStateToken(tarAddress))
        IN /\ tarResult.value = BRAZIL_TARIFFS[first]
           /\ BRAZIL_TARIFFS[first] # BRAZIL_TARIFFS[last] =>
                 tarResult.value # BRAZIL_TARIFFS[last]

\* C29 witness: "Rua Pe. B, SP" has the tokens PE and SP and yields the PE
\* constant, which is not that of SP.
C29_Witness ==
    /\ tarResult.called
    /\ tarAddress = <<"R", "u", "a", " ", "P", "e", ".", " ", "B", ",", " ", "S", "P">>
    /\ Cardinality(StateTokens(tarAddress)) = 2
    /\ tarResult.value = BRAZIL_TARIFFS["PE"]
    /\ tarResult.value # BRAZIL_TARIFFS["SP"]

---------------------------------------------------------------------------
(* The size against the roof, checked under SpecRep *)

\* the size of the solar branch before rounding, for the call's arguments
RepRawSize ==
    RawSystemSizeKw(getTariffByState(repArgs.address), repArgs.monthlyBill,
                    repArgs.solarData)

\* C30: when solar-potential data is present, the recommended systemSizeKw,
\* as computed and as returned in the report after rounding to two
\* decimals, never exceeds the roof-limited capacity
\* maxArrayPanelsCount x 550 W / 1000, for every bill and tariff.
C30_SizeWithinRoof ==
    (repPc # "idle" /\ HasSolarPotential(repArgs.solarData)) =>
        /\ repEst.systemSizeKw * 1000
              <= repArgs.solarData.maxArrayPanelsCount * 550 * 100
        /\ (repPc = "done" /\ repResult.state = "resolved") =>
              repResult.value.systemSizeKw * 1000
                 <= repArgs.solarData.maxArrayPanelsCount * 550 * 100

\* C30 witness: a size below the roof capacity that the rounding moved up,
\* in a returned report.
C30_Witness ==
    /\ repPc = "done" /\ repResult.state = "resolved"
    /\ HasSolarPotential(repArgs.solarData)
    /\ repArgs.solarData.maxArrayPanelsCount > 0
    /\ RepRawSize.n * 100 < repResult.value.systemSizeKw * RepRawSize.d
    /\ repResult.value.systemSizeKw < repArgs.solarData.maxArrayPanelsCount * 55

===========================================================================
